---- MODULE Spec2Model ----
(***************************************************************************)
(* Model of the khukuri interpreter: the scope stack (environment.rs), the *)
(* tree-walking evaluator (interpreter.rs) and the REPL that reuses one    *)
(* interpreter across lines (main.rs).                                     *)
(*                                                                         *)
(* Numbers are the integral f64 values; a String value is the sequence of  *)
(* its characters; a HashMap is a function on its key set.                 *)
(***************************************************************************)
EXTENDS Integers, Sequences, FiniteSets, TLC

VARIABLES
    environment,        \* Interpreter.environment.scopes : Vec<HashMap<String, Value>>
    functions,          \* Interpreter.functions : name -> (params, body)
    imported_modules,   \* Interpreter.imported_modules : filename -> bool
    importing_stack,    \* Interpreter.importing_stack : Vec<String>
    line,               \* the input handed to the last interpret call
    result,             \* what the last interpret call returned
    output,             \* what the last interpret call printed, one entry per println
    trace,              \* import events of the last interpret call, in order
    runs,               \* filename -> times its program was interpreted in this session
    succeeded,          \* filenames whose import executed and returned Ok
    lines,              \* number of interpret calls made on this interpreter
    call,               \* the last Environment method called directly, with arguments and return
    outer,              \* per scope: for each name first defined there, what get returned before
    lexer,              \* a Lexer (code, pos, line, column), the tokens and the result of tokenize
    parser,             \* the tokens handed to a Parser and the result of parse
    loop                \* a for-each loop in progress: its items, position and outcome

vars == <<environment, functions, imported_modules, importing_stack, line, result,
          output, trace, runs, succeeded, lines, call, outer, lexer, parser, loop>>

interpVars == <<functions, imported_modules, importing_stack, line, result,
                output, trace, runs, succeeded, lines, lexer, parser, loop>>

(***************************************************************************)
(* Bounds of the model                                                     *)
(***************************************************************************)
MaxLines == 2       \* interpret calls per interpreter session
MaxScopes == 3      \* scopes the direct Environment calls build up
MaxLen == 3         \* elements of the lists the programs build
MaxIndex == 4       \* indexes run over -MaxIndex..MaxIndex
MaxArgs == 3        \* parameters of a declared function, arguments of a call
MaxCode == 3        \* characters of the source texts handed to the lexer
MaxNewlines == 2    \* newline tokens between two statements handed to the parser

(***************************************************************************)
(* Option and Result                                                       *)
(***************************************************************************)
None == [some |-> FALSE]
Some(x) == [some |-> TRUE, v |-> x]

EmptyMap == [k \in {} |-> 0]
Insert(m, k, x) == [y \in (DOMAIN m) \cup {k} |-> IF y = k THEN x ELSE m[y]]

(***************************************************************************)
(* value.rs: the runtime values                                            *)
(***************************************************************************)
VNumber(n) == [t |-> "Number", n |-> n]
VString(s) == [t |-> "String", s |-> s]
VBoolean(b) == [t |-> "Boolean", b |-> b]
VList(l) == [t |-> "List", l |-> l]
VDictionary(d) == [t |-> "Dictionary", d |-> d]
VNull == [t |-> "Null"]

is_truthy(val) ==
    CASE val.t = "Boolean" -> val.b
      [] val.t = "Null" -> FALSE
      [] val.t = "Number" -> val.n # 0
      [] val.t = "String" -> Len(val.s) # 0
      [] val.t = "List" -> Len(val.l) # 0
      [] val.t = "Dictionary" -> DOMAIN val.d # {}

get_type(val) == val.t

(***************************************************************************)
(* environment.rs: the scope stack                                         *)
(***************************************************************************)
EnvironmentNew == << EmptyMap >>

push_scope(scopes) == Append(scopes, EmptyMap)

pop_scope_unguarded(scopes) ==
    IF Len(scopes) > 0 THEN SubSeq(scopes, 1, Len(scopes) - 1) ELSE scopes

pop_scope(scopes) ==
    IF Len(scopes) > 1 THEN SubSeq(scopes, 1, Len(scopes) - 1) ELSE scopes

define_global(scopes, name, value) ==
    IF Len(scopes) > 0
    THEN [scopes EXCEPT ![1] = Insert(@, name, value)]
    ELSE scopes

define(scopes, name, value) ==
    IF Len(scopes) > 0
    THEN [scopes EXCEPT ![Len(scopes)] = Insert(@, name, value)]
    ELSE scopes

\* a set that binds the name in the current scope when no scope holds it
set_or_define(scopes, name, value) ==
    IF \E i \in 1..Len(scopes) : name \in DOMAIN scopes[i]
    THEN [ok |-> TRUE,
          scopes |-> [scopes EXCEPT ![CHOOSE i \in 1..Len(scopes) :
                                        /\ name \in DOMAIN scopes[i]
                                        /\ \A j \in (i + 1)..Len(scopes) :
                                              name \notin DOMAIN scopes[j]] =
                                    Insert(@, name, value)]]
    ELSE [ok |-> TRUE, scopes |-> [scopes EXCEPT ![Len(scopes)] = Insert(@, name, value)]]

RECURSIVE get_rev(_, _, _)
get_rev(scopes, name, i) ==
    IF i = 0 THEN None
    ELSE IF name \in DOMAIN scopes[i] THEN Some(scopes[i][name])
    ELSE get_rev(scopes, name, i - 1)

\* a lookup that sees the innermost scope and the global scope only
get_innermost_or_global(scopes, name) ==
    IF name \in DOMAIN scopes[Len(scopes)] THEN Some(scopes[Len(scopes)][name])
    ELSE IF name \in DOMAIN scopes[1] THEN Some(scopes[1][name])
    ELSE None

get(scopes, name) == get_rev(scopes, name, Len(scopes))

RECURSIVE set_rev(_, _, _, _)
set_rev(scopes, name, value, i) ==
    IF i = 0 THEN [ok |-> FALSE, scopes |-> scopes, err |-> <<"Undefined variable: ", name>>]
    ELSE IF name \in DOMAIN scopes[i]
         THEN [ok |-> TRUE, scopes |-> [scopes EXCEPT ![i] = Insert(@, name, value)]]
    ELSE set_rev(scopes, name, value, i - 1)

set(scopes, name, value) == set_rev(scopes, name, value, Len(scopes))

current_scope_size(scopes) == Len(scopes)


(***************************************************************************)
(* value.rs: to_string.  A string is the sequence of its characters.       *)
(***************************************************************************)
DigitChar(d) == <<"0", "1", "2", "3", "4", "5", "6", "7", "8", "9">>[d + 1]

RECURSIVE nat_chars(_)
nat_chars(n) ==
    IF n < 10 THEN <<DigitChar(n)>>
    ELSE nat_chars(n \div 10) \o <<DigitChar(n % 10)>>

\* format!("{}", n as i64) for an integral f64
int_chars(n) == IF n < 0 THEN <<"-">> \o nat_chars(0 - n) ELSE nat_chars(n)

RECURSIVE join(_, _)
join(strs, sep) ==
    IF Len(strs) = 0 THEN <<>>
    ELSE IF Len(strs) = 1 THEN strs[1]
    ELSE strs[1] \o sep \o join(Tail(strs), sep)

\* The order in which a HashMap hands out its keys is not specified by the
\* program; key_order fixes one order per key set.
RECURSIVE key_order(_)
key_order(keys) ==
    IF keys = {} THEN <<>>
    ELSE LET k == CHOOSE x \in keys : TRUE IN <<k>> \o key_order(keys \ {k})

RECURSIVE to_string(_)
to_string(val) ==
    CASE val.t = "Number" -> int_chars(val.n)
      [] val.t = "String" -> val.s
      [] val.t = "Boolean" -> IF val.b THEN <<"s", "a", "h", "i">> ELSE <<"g", "a", "l", "a", "t">>
      [] val.t = "List" ->
            <<"[">> \o join([i \in 1..Len(val.l) |-> to_string(val.l[i])], <<",", " ">>) \o <<"]">>
      [] val.t = "Dictionary" ->
            LET ks == key_order(DOMAIN val.d) IN
            <<"{">> \o join([i \in 1..Len(ks) |->
                                <<"\"">> \o ks[i] \o <<"\"", ":", " ">> \o to_string(val.d[ks[i]])],
                            <<",", " ">>) \o <<"}">>
      [] val.t = "Null" -> <<"n", "u", "l", "l">>

(***************************************************************************)
(* ast.rs: the nodes.  An Option is None or Some(x); a Number node keeps   *)
(* its source text.                                                        *)
(***************************************************************************)
Program(statements) == [k |-> "Program", statements |-> statements]
VarDeclaration(name, value) == [k |-> "VarDeclaration", name |-> name, value |-> value]
Assignment(name, value) == [k |-> "Assignment", name |-> name, value |-> value]
IfStatement(condition, then_block, else_block) ==
    [k |-> "IfStatement", condition |-> condition, then_block |-> then_block,
     else_block |-> else_block]
WhileLoop(condition, body) == [k |-> "WhileLoop", condition |-> condition, body |-> body]
ForEachLoop(variable, iterable, body) ==
    [k |-> "ForEachLoop", variable |-> variable, iterable |-> iterable, body |-> body]
FunctionDeclaration(name, parameters, body) ==
    [k |-> "FunctionDeclaration", name |-> name, parameters |-> parameters, body |-> body]
Return(expr) == [k |-> "Return", expr |-> expr]
Print_(expr) == [k |-> "Print", expr |-> expr]
Break == [k |-> "Break"]
Continue == [k |-> "Continue"]
Import(filename) == [k |-> "Import", filename |-> filename]
BinaryOp(left, operator, right) ==
    [k |-> "BinaryOp", left |-> left, operator |-> operator, right |-> right]
UnaryOp(operator, operand) == [k |-> "UnaryOp", operator |-> operator, operand |-> operand]
FunctionCall(name, arguments) == [k |-> "FunctionCall", name |-> name, arguments |-> arguments]
ListLiteral(elements) == [k |-> "ListLiteral", elements |-> elements]
DictionaryLiteral(pairs) == [k |-> "DictionaryLiteral", pairs |-> pairs]
IndexAccess(object, index) == [k |-> "IndexAccess", object |-> object, index |-> index]
IndexAssignment(object, index, value) ==
    [k |-> "IndexAssignment", object |-> object, index |-> index, value |-> value]
Identifier(name) == [k |-> "Identifier", name |-> name]
Number(val) == [k |-> "Number", val |-> val]
String(val) == [k |-> "String", val |-> val]
Boolean(val) == [k |-> "Boolean", val |-> val]


(***************************************************************************)
(* interpreter.rs: results.  st is the interpreter the call works on: its  *)
(* four fields, what it has printed and the import events it has logged.   *)
(* An Err keeps st as the failing call left it.                            *)
(***************************************************************************)
FNone == [k |-> "None"]
FBreak == [k |-> "Break"]
FContinue == [k |-> "Continue"]
FReturn(value) == [k |-> "Return", v |-> value]

OkFlow(st, flow) == [ok |-> TRUE, st |-> st, flow |-> flow]
OkValue(st, value) == [ok |-> TRUE, st |-> st, v |-> value]
Err(st, msg) == [ok |-> FALSE, st |-> st, err |-> msg]

PushScope(st) == [st EXCEPT !.environment = push_scope(@)]
PopScope(st) == [st EXCEPT !.environment = pop_scope(@)]
Define(st, name, value) == [st EXCEPT !.environment = define(@, name, value)]
Log(st, event) == [st EXCEPT !.trace = Append(@, event)]

Contains(seq, x) == \E i \in 1..Len(seq) : seq[i] = x

(***************************************************************************)
(* Number literals: val.parse::<f64>() on the digits of an integral        *)
(* literal, with an optional fraction of zeros.                            *)
(***************************************************************************)
Digits == {"0", "1", "2", "3", "4", "5", "6", "7", "8", "9"}
DigitValue(c) == CHOOSE d \in 0..9 : DigitChar(d) = c

RECURSIVE digits_value(_, _, _)
digits_value(text, i, acc) ==
    IF i > Len(text) THEN acc
    ELSE digits_value(text, i + 1, acc * 10 + DigitValue(text[i]))

parse_f64(text) ==
    LET dots == {i \in 1..Len(text) : text[i] = "."}
        int == IF dots = {} THEN text
               ELSE SubSeq(text, 1, (CHOOSE i \in dots : TRUE) - 1)
        frac == IF dots = {} THEN <<>>
                ELSE SubSeq(text, (CHOOSE i \in dots : TRUE) + 1, Len(text))
    IN  IF /\ Cardinality(dots) <= 1
           /\ Len(int) + Len(frac) > 0
           /\ \A i \in 1..Len(int) : int[i] \in Digits
           /\ \A i \in 1..Len(frac) : frac[i] = "0"
        THEN Some(digits_value(int, 1, 0))
        ELSE None

\* `n as usize`: a saturating cast, so every negative number becomes 0
as_usize(n) == IF n < 0 THEN 0 ELSE n

\* f64 remainder: the sign of the result is the sign of the dividend, and
\* the remainder by zero is not a number
f64_rem(l, r) ==
    LET al == IF l < 0 THEN 0 - l ELSE l
        ar == IF r < 0 THEN 0 - r ELSE r
    IN  IF r = 0 THEN "NaN"
        ELSE IF l < 0 THEN 0 - (al % ar) ELSE al % ar

\* f64 division, on the pairs whose quotient is integral (the numbers of the
\* model) and by zero; no other pair is evaluated
f64_div(l, r) ==
    LET al == IF l < 0 THEN 0 - l ELSE l
        ar == IF r < 0 THEN 0 - r ELSE r
    IN  CASE r = 0 /\ l = 0 -> "NaN"
          [] r = 0 /\ l > 0 -> "inf"
          [] r = 0 /\ l < 0 -> "-inf"
          [] r # 0 /\ al % ar = 0 /\ (l < 0) = (r < 0) -> al \div ar
          [] r # 0 /\ al % ar = 0 /\ (l < 0) # (r < 0) -> 0 - (al \div ar)

\* a zero test that never finds a zero
is_zero_never(r) == FALSE

\* `*r == 0.0`
is_zero(r) == r = 0

(***************************************************************************)
(* interpreter.rs: eval_binary_op and eval_unary_op on evaluated operands  *)
(***************************************************************************)
binary_op(l, operator, r) ==
    LET num == l.t = "Number" /\ r.t = "Number"
        str == l.t = "String" /\ r.t = "String"
        bool == l.t = "Boolean" /\ r.t = "Boolean"
    IN
    CASE num /\ operator = "+" -> Some(VNumber(l.n + r.n))
      [] num /\ operator = "-" -> Some(VNumber(l.n - r.n))
      [] num /\ operator = "*" -> Some(VNumber(l.n * r.n))
      [] num /\ operator = "/" /\ is_zero(r.n) -> [some |-> FALSE, err |-> <<"Division by zero">>]
      [] num /\ operator = "/" /\ ~is_zero(r.n) -> Some(VNumber(f64_div(l.n, r.n)))
      [] num /\ operator = "%" /\ is_zero(r.n) -> [some |-> FALSE, err |-> <<"Modulo by zero">>]
      [] num /\ operator = "%" /\ ~is_zero(r.n) -> Some(VNumber(f64_rem(l.n, r.n)))
      [] num /\ operator = ">" -> Some(VBoolean(l.n > r.n))
      [] num /\ operator = "<" -> Some(VBoolean(l.n < r.n))
      [] num /\ operator = ">=" -> Some(VBoolean(l.n >= r.n))
      [] num /\ operator = "<=" -> Some(VBoolean(l.n <= r.n))
      [] num /\ operator = "==" -> Some(VBoolean(l.n = r.n))
      [] num /\ operator = "!=" -> Some(VBoolean(l.n # r.n))
      [] str /\ operator = "+" -> Some(VString(l.s \o r.s))
      [] str /\ operator = "==" -> Some(VBoolean(l.s = r.s))
      [] str /\ operator = "!=" -> Some(VBoolean(l.s # r.s))
      [] bool /\ operator = "==" -> Some(VBoolean(l.b = r.b))
      [] bool /\ operator = "!=" -> Some(VBoolean(l.b # r.b))
      [] operator = "ra" -> Some(VBoolean(is_truthy(l) /\ is_truthy(r)))
      [] operator = "wa" -> Some(VBoolean(is_truthy(l) \/ is_truthy(r)))
      [] l.t = "String" /\ operator = "+" /\ r.t = "Number" -> Some(VString(l.s \o int_chars(r.n)))
      [] l.t = "Number" /\ operator = "+" /\ r.t = "String" -> Some(VString(int_chars(l.n) \o r.s))
      [] OTHER ->
            [some |-> FALSE,
             err |-> <<"Invalid operation: ">> \o to_string(l) \o <<operator>> \o to_string(r)]

unary_op(operator, val) ==
    CASE operator = "hoina" -> Some(VBoolean(~is_truthy(val)))
      [] operator = "-" /\ val.t = "Number" -> Some(VNumber(0 - val.n))
      [] operator = "-" /\ val.t # "Number" -> [some |-> FALSE, err |-> <<"Cannot negate non-number">>]
      [] OTHER -> [some |-> FALSE, err |-> <<"Unknown unary operator: ", operator>>]

(***************************************************************************)
(* interpreter.rs: indexing on evaluated operands                          *)
(***************************************************************************)
\* s.len() counts bytes and s.chars().nth(idx) counts characters
\* (a character outside ASCII is written by its code point)
len_utf8(c) == IF c = "U+00E9" THEN 2 ELSE IF c = "U+0928" THEN 3 ELSE 1

RECURSIVE byte_len(_)
byte_len(s) == IF Len(s) = 0 THEN 0 ELSE len_utf8(s[1]) + byte_len(Tail(s))


index_value(obj, index) ==
    CASE obj.t = "List" /\ index.t = "Number" ->
            IF as_usize(index.n) < Len(obj.l)
            THEN Some(obj.l[as_usize(index.n) + 1])
            ELSE [some |-> FALSE, err |-> <<"List index ", ToString(as_usize(index.n)), " out of bounds">>]
      [] obj.t = "Dictionary" /\ index.t = "String" ->
            IF index.s \in DOMAIN obj.d
            THEN Some(obj.d[index.s])
            ELSE [some |-> FALSE, err |-> <<"Key '">> \o index.s \o <<"' not found in dictionary">>]
      [] obj.t = "String" /\ index.t = "Number" ->
            IF as_usize(index.n) < byte_len(obj.s)
            THEN IF as_usize(index.n) < Len(obj.s)
                 THEN Some(VString(<<obj.s[as_usize(index.n) + 1]>>))
                 ELSE [some |-> FALSE, panic |-> TRUE,
                       err |-> <<"called Option::unwrap() on a None value">>]
            ELSE [some |-> FALSE, err |-> <<"String index ", ToString(as_usize(index.n)), " out of bounds">>]
      [] OTHER ->
            [some |-> FALSE, err |-> <<"Cannot index ", get_type(obj), " with ", get_type(index)>>]

\* an index assignment that always writes the first element of a list
index_store_at_zero(obj, index, new_value) ==
    CASE obj.t = "List" /\ index.t = "Number" ->
            IF as_usize(index.n) < Len(obj.l)
            THEN Some(VList([obj.l EXCEPT ![1] = new_value]))
            ELSE [some |-> FALSE, err |-> <<"List index ", ToString(as_usize(index.n)), " out of bounds">>]
      [] obj.t = "Dictionary" /\ index.t = "String" ->
            Some(VDictionary(Insert(obj.d, index.s, new_value)))
      [] OTHER -> [some |-> FALSE, err |-> <<"Invalid index assignment">>]

\* the container of an index assignment with one element replaced
index_store(obj, index, new_value) ==
    CASE obj.t = "List" /\ index.t = "Number" ->
            IF as_usize(index.n) < Len(obj.l)
            THEN Some(VList([obj.l EXCEPT ![as_usize(index.n) + 1] = new_value]))
            ELSE [some |-> FALSE, err |-> <<"List index ", ToString(as_usize(index.n)), " out of bounds">>]
      [] obj.t = "Dictionary" /\ index.t = "String" ->
            Some(VDictionary(Insert(obj.d, index.s, new_value)))
      [] OTHER -> [some |-> FALSE, err |-> <<"Invalid index assignment">>]

\* a for-each that hands out the values of a dictionary instead of its keys
iteration_items_values(val) ==
    CASE val.t = "List" -> Some(val.l)
      [] val.t = "Dictionary" ->
            LET ks == key_order(DOMAIN val.d) IN Some([i \in 1..Len(ks) |-> val.d[ks[i]]])
      [] val.t = "String" -> Some([i \in 1..Len(val.s) |-> VString(<<val.s[i]>>)])
      [] OTHER -> [some |-> FALSE, err |-> <<"Cannot iterate over ", get_type(val)>>]

\* what a for-each loop binds its variable to, in order
iteration_items(val) ==
    CASE val.t = "List" -> Some(val.l)
      [] val.t = "Dictionary" ->
            LET ks == key_order(DOMAIN val.d) IN Some([i \in 1..Len(ks) |-> VString(ks[i])])
      [] val.t = "String" -> Some([i \in 1..Len(val.s) |-> VString(<<val.s[i]>>)])
      [] OTHER -> [some |-> FALSE, err |-> <<"Cannot iterate over ", get_type(val)>>]


(***************************************************************************)
(* The files an import can name.  A file is its text; what the model keeps *)
(* of a text is whether fs::read_to_string, Lexer::tokenize and            *)
(* Parser::parse succeed on it, and the program the parser returns.        *)
(***************************************************************************)
Chars_lib == <<"l", "i", "b">>
Chars_bad == <<"b", "a", "d">>
Chars_cyc == <<"c", "y", "c">>
Chars_brk == <<"b", "r", "k">>
Chars_cnt == <<"c", "n", "t">>

Source(program) == [readable |-> TRUE, lexes |-> TRUE, parses |-> TRUE, program |-> program]

FileNames == {"lib", "bad", "cyc", "p", "q", "brk", "cnt", "lex", "par", "nest", "missing"}

FileSystem(filename) ==
    CASE filename = "lib" ->
            \* maanau v = 1 / kaam inc(a) { pathau a + 1 } / bhan "lib"
            Source(Program(<<
                VarDeclaration("v", Number(<<"1">>)),
                FunctionDeclaration("inc", <<"a">>,
                    <<Return(BinaryOp(Identifier("a"), "+", Number(<<"1">>)))>>),
                Print_(String(Chars_lib))>>))
      [] filename = "bad" ->
            \* bhan "bad" / maanau w = 2 / bhan nowhere
            Source(Program(<<
                Print_(String(Chars_bad)),
                VarDeclaration("w", Number(<<"2">>)),
                Print_(Identifier("nowhere"))>>))
      [] filename = "cyc" ->
            \* bhan "cyc" / aayaat "cyc"
            Source(Program(<<Print_(String(Chars_cyc)), Import("cyc")>>))
      [] filename = "p" ->
            \* c = c + 1 / bhan c / yedi c < 3 bhane { aayaat "q" }
            Source(Program(<<
                Assignment("c", BinaryOp(Identifier("c"), "+", Number(<<"1">>))),
                Print_(Identifier("c")),
                IfStatement(BinaryOp(Identifier("c"), "<", Number(<<"3">>)),
                            <<Import("q")>>, None)>>))
      [] filename = "q" ->
            \* aayaat "p"
            Source(Program(<<Import("p")>>))
      [] filename = "brk" ->
            \* bhan "brk" / rok / bhan "brk"
            Source(Program(<<Print_(String(Chars_brk)), Break, Print_(String(Chars_brk))>>))
      [] filename = "cnt" ->
            \* bhan "cnt" / jane
            Source(Program(<<Print_(String(Chars_cnt)), Continue>>))
      [] filename = "lex" ->
            [readable |-> TRUE, lexes |-> FALSE]
      [] filename = "par" ->
            [readable |-> TRUE, lexes |-> TRUE, parses |-> FALSE]
      [] filename = "nest" ->
            \* aayaat "lex"
            Source(Program(<<Import("lex")>>))
      [] OTHER ->
            [readable |-> FALSE]


(***************************************************************************)
(* interpreter.rs: the evaluator.  Every operator takes the interpreter st *)
(* and returns OkFlow / OkValue with the interpreter after the call, or    *)
(* Err with the interpreter as the `?` that returned early left it.        *)
(***************************************************************************)
\* the exits of one loop iteration without the pop on the Return path
loop_iteration_end_no_pop_on_return(r) ==
    CASE r.flow.k = "Return" -> [done |-> TRUE, st |-> r.st, flow |-> r.flow]
      [] r.flow.k = "Break" -> [done |-> TRUE, st |-> PopScope(r.st), flow |-> FNone]
      [] OTHER -> [done |-> FALSE, st |-> PopScope(r.st), flow |-> FNone]

\* what a loop does with the signal its body's statements ended in: Return
\* pops and leaves the loop with the signal, Break pops and ends the loop,
\* Continue and None pop and go on with the next iteration
loop_iteration_end(r) ==
    CASE r.flow.k = "Return" -> [done |-> TRUE, st |-> PopScope(r.st), flow |-> r.flow]
      [] r.flow.k = "Break" -> [done |-> TRUE, st |-> PopScope(r.st), flow |-> FNone]
      [] OTHER -> [done |-> FALSE, st |-> PopScope(r.st), flow |-> FNone]

\* the import table lookup that never finds a filename
already_imported_never(st, filename) == FALSE

already_imported(st, filename) == filename \in DOMAIN st.imported_modules

\* the cycle check that looks at the innermost import only
in_import_chain_top_only(st, filename) ==
    /\ Len(st.importing_stack) > 0
    /\ st.importing_stack[Len(st.importing_stack)] = filename

in_import_chain(st, filename) == Contains(st.importing_stack, filename)

\* importing_stack.pop() and imported_modules.insert(filename, true)
import_finish(st, filename) ==
    [st EXCEPT !.importing_stack = IF Len(@) > 0 THEN SubSeq(@, 1, Len(@) - 1) ELSE @,
               !.imported_modules = Insert(@, filename, TRUE)]

RECURSIVE interpret_with_control(_, _)
RECURSIVE evaluate_expression(_, _)
RECURSIVE exec_stmts(_, _, _)
RECURSIVE eval_elements(_, _, _, _)
RECURSIVE eval_pairs(_, _, _, _)
RECURSIVE while_loop(_, _, _)
RECURSIVE for_each_items(_, _, _, _, _)
RECURSIVE call_function(_, _, _)
RECURSIVE execute_import(_, _)
RECURSIVE eval_binary_op(_, _)

\* a function table that keeps the first declaration of a name
insert_function_once(table, name, decl) ==
    IF name \in DOMAIN table THEN table ELSE Insert(table, name, decl)

\* self.functions.insert(name, (parameters, body))
insert_function(table, name, decl) == Insert(table, name, decl)

\* a count check that lets a call with too few arguments through
count_mismatch_too_many(arguments, params) == Len(arguments) > Len(params)

\* `arguments.len() != params.len()`
count_mismatch(arguments, params) == Len(arguments) # Len(params)

\* the `?` operator: an Err returns from the enclosing function at once, an
\* Ok value goes on into the rest of the function.  q is the value of r,
\* computed once.
Try(r, Rest(_)) == CHOOSE after \in {IF q.ok THEN Rest(q) ELSE q : q \in {r}} : TRUE

\* `for stmt in stmts { match self.interpret_with_control(stmt)? { None => continue, .. } }`:
\* the first signal that is not None, or None after the last statement
exec_stmts(stmts, i, st) ==
    IF i > Len(stmts) THEN OkFlow(st, FNone)
    ELSE Try(interpret_with_control(stmts[i], st), LAMBDA r :
             IF r.flow.k = "None" THEN exec_stmts(stmts, i + 1, r.st) ELSE r)

\* a then- or else-block: push, run, pop, hand on the signal
if_block(stmts, st) ==
    Try(exec_stmts(stmts, 1, PushScope(st)), LAMBDA r : OkFlow(PopScope(r.st), r.flow))

if_statement(node, st) ==
    Try(evaluate_expression(node.condition, st), LAMBDA c :
        IF is_truthy(c.v) THEN if_block(node.then_block, c.st)
        ELSE IF node.else_block.some THEN if_block(node.else_block.v, c.st)
        ELSE OkFlow(c.st, FNone))

\* a while loop that runs its body once before it first looks at the condition
while_loop_body_first(condition, body, st) ==
    Try(exec_stmts(body, 1, PushScope(st)), LAMBDA r :
        LET e == loop_iteration_end(r) IN
        IF e.done THEN OkFlow(e.st, e.flow)
        ELSE Try(evaluate_expression(condition, e.st), LAMBDA c :
                 IF ~is_truthy(c.v) THEN OkFlow(c.st, FNone)
                 ELSE while_loop(condition, body, c.st)))

while_loop(condition, body, st) ==
    Try(evaluate_expression(condition, st), LAMBDA c :
        IF ~is_truthy(c.v) THEN OkFlow(c.st, FNone)
        ELSE Try(exec_stmts(body, 1, PushScope(c.st)), LAMBDA r :
                 LET e == loop_iteration_end(r) IN
                 IF e.done THEN OkFlow(e.st, e.flow)
                 ELSE while_loop(condition, body, e.st)))

\* one iteration of a for-each loop up to the end of its body: a new scope,
\* the loop variable defined in it, the statements of the body
for_each_iteration(variable, item, body, st) ==
    exec_stmts(body, 1, Define(PushScope(st), variable, item))

for_each_items(variable, items, i, body, st) ==
    IF i > Len(items) THEN OkFlow(st, FNone)
    ELSE Try(for_each_iteration(variable, items[i], body, st), LAMBDA r :
             LET e == loop_iteration_end(r) IN
             IF e.done THEN OkFlow(e.st, e.flow)
             ELSE for_each_items(variable, items, i + 1, body, e.st))

for_each_loop(node, st) ==
    Try(evaluate_expression(node.iterable, st), LAMBDA it :
        LET items == iteration_items(it.v) IN
        IF ~items.some THEN Err(it.st, items.err)
        ELSE for_each_items(node.variable, items.v, 1, node.body, it.st))

\* the store into the object once index and value are evaluated
index_assignment_store(node, i, n) ==
    IF node.object.k # "Identifier"
    THEN Err(n.st, <<"Invalid left-hand side in index assignment">>)
    ELSE LET obj == get(n.st.environment, node.object.name) IN
    IF ~obj.some THEN Err(n.st, <<"Undefined variable: ", node.object.name>>)
    ELSE LET stored == index_store(obj.v, i.v, n.v) IN
    IF ~stored.some THEN Err(n.st, stored.err)
    ELSE LET s == set(n.st.environment, node.object.name, stored.v) IN
    IF ~s.ok THEN Err(n.st, s.err)
    ELSE OkFlow([n.st EXCEPT !.environment = s.scopes], FNone)

index_assignment(node, st) ==
    Try(evaluate_expression(node.index, st), LAMBDA i :
        Try(evaluate_expression(node.value, i.st), LAMBDA n :
            index_assignment_store(node, i, n)))

interpret_with_control(node, st) ==
    CASE node.k = "Program" -> exec_stmts(node.statements, 1, st)
      [] node.k = "VarDeclaration" ->
            Try(evaluate_expression(node.value, st), LAMBDA r :
                OkFlow(Define(r.st, node.name, r.v), FNone))
      [] node.k = "Assignment" ->
            Try(evaluate_expression(node.value, st), LAMBDA r :
                LET s == set(r.st.environment, node.name, r.v) IN
                IF ~s.ok THEN Err(r.st, s.err)
                ELSE OkFlow([r.st EXCEPT !.environment = s.scopes], FNone))
      [] node.k = "IndexAssignment" -> index_assignment(node, st)
      [] node.k = "IfStatement" -> if_statement(node, st)
      [] node.k = "WhileLoop" -> while_loop(node.condition, node.body, st)
      [] node.k = "ForEachLoop" -> for_each_loop(node, st)
      [] node.k = "FunctionDeclaration" ->
            OkFlow([st EXCEPT !.functions =
                        insert_function(@, node.name,
                                        [params |-> node.parameters, body |-> node.body])],
                   FNone)
      [] node.k = "Return" ->
            Try(evaluate_expression(node.expr, st), LAMBDA r : OkFlow(r.st, FReturn(r.v)))
      [] node.k = "Print" ->
            Try(evaluate_expression(node.expr, st), LAMBDA r :
                OkFlow([r.st EXCEPT !.output = Append(@, to_string(r.v))], FNone))
      [] node.k = "Import" ->
            Try(execute_import(node.filename, st), LAMBDA r : OkFlow(r.st, FNone))
      [] node.k = "Break" -> OkFlow(st, FBreak)
      [] node.k = "Continue" -> OkFlow(st, FContinue)
      [] OTHER ->
            Try(evaluate_expression(node, st), LAMBDA r : OkFlow(r.st, FNone))

eval_elements(elements, i, list, st) ==
    IF i > Len(elements) THEN OkValue(st, list)
    ELSE Try(evaluate_expression(elements[i], st), LAMBDA r :
             eval_elements(elements, i + 1, Append(list, r.v), r.st))

\* pairs[i] = <<key, value expression>>
eval_pairs(pairs, i, dict, st) ==
    IF i > Len(pairs) THEN OkValue(st, dict)
    ELSE Try(evaluate_expression(pairs[i][2], st), LAMBDA r :
             eval_pairs(pairs, i + 1, Insert(dict, pairs[i][1], r.v), r.st))

\* an Option-like result x of a pure operation, as the value or the error
value_or_err(st, x) == IF x.some THEN OkValue(st, x.v) ELSE Err(st, x.err)

\* an eval_binary_op that leaves the right operand of ra and wa alone when
\* the left operand decides the result
eval_binary_op_short_circuit(node, st) ==
    Try(evaluate_expression(node.left, st), LAMBDA l :
        IF node.operator = "ra" /\ ~is_truthy(l.v) THEN OkValue(l.st, VBoolean(FALSE))
        ELSE IF node.operator = "wa" /\ is_truthy(l.v) THEN OkValue(l.st, VBoolean(TRUE))
        ELSE Try(evaluate_expression(node.right, l.st), LAMBDA r :
                 value_or_err(r.st, binary_op(l.v, node.operator, r.v))))

\* both operands are evaluated, left first, before the operator is looked at
eval_binary_op(node, st) ==
    Try(evaluate_expression(node.left, st), LAMBDA l :
        Try(evaluate_expression(node.right, l.st), LAMBDA r :
            value_or_err(r.st, binary_op(l.v, node.operator, r.v))))

evaluate_expression(node, st) ==
    CASE node.k = "BinaryOp" -> eval_binary_op(node, st)
      [] node.k = "UnaryOp" ->
            Try(evaluate_expression(node.operand, st), LAMBDA r :
                value_or_err(r.st, unary_op(node.operator, r.v)))
      [] node.k = "FunctionCall" -> call_function(node.name, node.arguments, st)
      [] node.k = "ListLiteral" ->
            Try(eval_elements(node.elements, 1, <<>>, st), LAMBDA r :
                OkValue(r.st, VList(r.v)))
      [] node.k = "DictionaryLiteral" ->
            Try(eval_pairs(node.pairs, 1, EmptyMap, st), LAMBDA r :
                OkValue(r.st, VDictionary(r.v)))
      [] node.k = "IndexAccess" ->
            Try(evaluate_expression(node.object, st), LAMBDA o :
                Try(evaluate_expression(node.index, o.st), LAMBDA i :
                    value_or_err(i.st, index_value(o.v, i.v))))
      [] node.k = "Identifier" ->
            LET x == get(st.environment, node.name) IN
            IF x.some THEN OkValue(st, x.v) ELSE Err(st, <<"Undefined variable: ", node.name>>)
      [] node.k = "Number" ->
            LET x == parse_f64(node.val) IN
            IF x.some THEN OkValue(st, VNumber(x.v)) ELSE Err(st, <<"Invalid number: ">> \o node.val)
      [] node.k = "String" -> OkValue(st, VString(node.val))
      [] node.k = "Boolean" -> OkValue(st, VBoolean(node.val))
      [] OTHER -> Err(st, <<"Invalid expression">>)

RECURSIVE bind_parameters(_, _, _, _)
bind_parameters(params, arg_values, i, st) ==
    IF i > Len(params) \/ i > Len(arg_values) THEN st
    ELSE bind_parameters(params, arg_values, i + 1, Define(st, params[i], arg_values[i]))

\* what a caller makes of the signal a function body or a program ended in
flow_value(r, st) ==
    CASE r.flow.k = "Return" -> OkValue(st, r.flow.v)
      [] r.flow.k = "None" -> OkValue(st, VNull)
      [] r.flow.k = "Break" -> Err(r.st, <<"Break statement outside loop">>)
      [] r.flow.k = "Continue" -> Err(r.st, <<"Continue statement outside loop">>)

call_function(name, arguments, st) ==
    IF name \notin DOMAIN st.functions THEN Err(st, <<"Undefined function: ", name>>)
    ELSE LET params == st.functions[name].params
             body == st.functions[name].body IN
    IF count_mismatch(arguments, params)
    THEN Err(st, <<"Function ", name, " expects ", ToString(Len(params)),
                   " arguments, got ", ToString(Len(arguments))>>)
    ELSE Try(eval_elements(arguments, 1, <<>>, st), LAMBDA a :
             Try(exec_stmts(body, 1, bind_parameters(params, a.v, 1, PushScope(a.st))),
                 LAMBDA r : flow_value(r, PopScope(r.st))))

\* after the imported program has run: pop the marker, record the file, and
\* only then look at the result
import_end(r, filename) ==
    LET done == import_finish(r.st, filename) IN
    IF ~r.ok
    THEN Err(Log(done, <<"end", filename, "Err">>),
             <<"Runtime error imported file '", filename, "' ma: ">> \o r.err)
    ELSE OkValue(Log(done, <<"end", filename, "Ok">>), VNull)

execute_import(filename, st0) ==
    LET st == Log(st0, <<"import", filename>>) IN
    IF already_imported(st, filename) THEN OkValue(Log(st, <<"skip", filename>>), VNull)
    ELSE IF in_import_chain(st, filename)
         THEN Err(Log(st, <<"circular", filename>>), <<"Circular import bhettayo bro: ", filename>>)
    ELSE LET pushed == [st EXCEPT !.importing_stack = Append(@, filename)]
             file == FileSystem(filename) IN
    IF ~file.readable
    THEN Err(pushed, <<"Import error: File '", filename, "' padhna sakiyena: ">>)
    ELSE IF ~file.lexes
    THEN Err(pushed, <<"Import error '", filename, "' ma: ", "lexer error">>)
    ELSE IF ~file.parses
    THEN Err(pushed, <<"Import error '", filename, "' ma: ", "parser error">>)
    ELSE import_end(interpret_with_control(file.program, Log(pushed, <<"begin", filename>>)),
                    filename)

interpret(node, st) ==
    Try(interpret_with_control(node, st), LAMBDA r : flow_value(r, r.st))


(***************************************************************************)
(* The nodes handed to interpret: the programs Parser::parse returns for   *)
(* the lines written above each (" / " stands for a newline or a blank),   *)
(* and two nodes built directly as the unit tests build them.              *)
(***************************************************************************)
Num(digit) == Number(<<digit>>)
Call(name, digit) == FunctionCall(name, <<Num(digit)>>)

\* kaam g(n) { maanau i = 0
\*   jaba samma i < 3 { i = i + 1 / yedi i == 1 bhane { jane }
\*                      yedi i == n bhane { pathau i } natra { rok } }
\*   pathau 0 }
DeclareG ==
    FunctionDeclaration("g", <<"n">>,
        <<VarDeclaration("i", Num("0")),
          WhileLoop(BinaryOp(Identifier("i"), "<", Num("3")),
            <<Assignment("i", BinaryOp(Identifier("i"), "+", Num("1"))),
              IfStatement(BinaryOp(Identifier("i"), "==", Num("1")), <<Continue>>, None),
              IfStatement(BinaryOp(Identifier("i"), "==", Identifier("n")),
                          <<Return(Identifier("i"))>>, Some(<<Break>>))>>),
          Return(Num("0"))>>)

ImportLine(filename) == <<"aayaat", filename>>

Inputs ==
    {ImportLine(f) : f \in FileNames} \cup
    {<<"maanau c = 0">>, <<"if error">>, <<"while error">>, <<"kaam f">>, <<"f(1)">>,
     <<"f(0)">>, <<"g(2)">>, <<"g(5)">>, <<"if return">>, <<"for break">>,
     <<"for return">>, <<"5 + 3">>, <<"x = 42; x">>, <<"rok">>, <<"jane">>, <<"Break">>,
     <<"if rok">>, <<"loop calls rok">>, <<"import twice">>, <<"chain">>}

Node(input) ==
    CASE input[1] = "aayaat" -> Program(<<Import(input[2])>>)
      [] input[1] = "maanau c = 0" -> Program(<<VarDeclaration("c", Num("0"))>>)
      [] input[1] = "if error" ->
            \* yedi sahi bhane { maanau t = 1 / bhan nowhere }
            Program(<<IfStatement(Boolean(TRUE),
                        <<VarDeclaration("t", Num("1")), Print_(Identifier("nowhere"))>>, None)>>)
      [] input[1] = "while error" ->
            \* jaba samma sahi { pratyek e ma [1] { bhan 1 / 0 } }
            Program(<<WhileLoop(Boolean(TRUE),
                        <<ForEachLoop("e", ListLiteral(<<Num("1")>>),
                            <<Print_(BinaryOp(Num("1"), "/", Num("0")))>>)>>)>>)
      [] input[1] = "kaam f" ->
            \* kaam f(a) { yedi a > 0 bhane { pathau a } / pathau nowhere }
            Program(<<FunctionDeclaration("f", <<"a">>,
                        <<IfStatement(BinaryOp(Identifier("a"), ">", Num("0")),
                                      <<Return(Identifier("a"))>>, None),
                          Return(Identifier("nowhere"))>>)>>)
      [] input[1] = "f(1)" -> Program(<<Call("f", "1")>>)
      [] input[1] = "f(0)" -> Program(<<Call("f", "0")>>)
      [] input[1] = "g(2)" -> Program(<<DeclareG, Return(Call("g", "2"))>>)
      [] input[1] = "g(5)" -> Program(<<DeclareG, Return(Call("g", "5"))>>)
      [] input[1] = "if return" ->
            \* yedi galat bhane { } natra { maanau u = 7 / pathau u }
            Program(<<IfStatement(Boolean(FALSE), <<>>,
                        Some(<<VarDeclaration("u", Num("7")), Return(Identifier("u"))>>))>>)
      [] input[1] = "for break" ->
            \* pratyek x ma [1, 2, 3] { yedi x == 1 bhane { jane } / rok }
            Program(<<ForEachLoop("x", ListLiteral(<<Num("1"), Num("2"), Num("3")>>),
                        <<IfStatement(BinaryOp(Identifier("x"), "==", Num("1")),
                                      <<Continue>>, None),
                          Break>>)>>)
      [] input[1] = "for return" ->
            \* pratyek ch ma "ab" { pathau ch }
            Program(<<ForEachLoop("ch", String(<<"a", "b">>), <<Return(Identifier("ch"))>>)>>)
      [] input[1] = "5 + 3" ->
            \* ASTNode::new_binary_op(Number("5"), "+", Number("3"))
            BinaryOp(Num("5"), "+", Num("3"))
      [] input[1] = "x = 42; x" ->
            \* maanau x = 42 / x
            Program(<<VarDeclaration("x", Number(<<"4", "2">>)), Identifier("x")>>)
      [] input[1] = "rok" -> Program(<<Break>>)
      [] input[1] = "jane" -> Program(<<Continue>>)
      [] input[1] = "Break" -> Break      \* ASTNode::Break
      [] input[1] = "if rok" ->
            \* yedi sahi bhane { rok }
            Program(<<IfStatement(Boolean(TRUE), <<Break>>, None)>>)
      [] input[1] = "loop calls rok" ->
            \* kaam b() { rok } / jaba samma sahi { b() }
            Program(<<FunctionDeclaration("b", <<>>, <<Break>>),
                      WhileLoop(Boolean(TRUE), <<FunctionCall("b", <<>>)>>)>>)
      [] input[1] = "import twice" ->
            \* aayaat "lib" / v = v + 1 / aayaat "lib"
            Program(<<Import("lib"),
                      Assignment("v", BinaryOp(Identifier("v"), "+", Num("1"))),
                      Import("lib")>>)
      [] input[1] = "chain" ->
            \* maanau c = 0 / aayaat "p"
            Program(<<VarDeclaration("c", Num("0")), Import("p")>>)

(***************************************************************************)
(* lexer.rs.  A Lexer lx is [code, pos, line, column]; pos counts from 0   *)
(* and current_char is the character at pos, or None past the end.         *)
(***************************************************************************)
Letters == {"a", "m", "n", "u", "x"}
is_ascii_digit(ch) == ch \in Digits
is_alphabetic(ch) == ch \in Letters
is_alphanumeric(ch) == ch \in Letters \cup Digits
\* char::is_whitespace on the characters of the model (U+000C is form feed)
is_whitespace(ch) == ch \in {" ", "\t", "\r", "\n", "U+000C"}

keywords ==
    {<<"m", "a", "a", "n", "a", "u">>, <<"y", "e", "d", "i">>, <<"b", "h", "a", "n", "e">>,
     <<"n", "a", "t", "r", "a">>, <<"j", "a", "b", "a">>, <<"s", "a", "m", "m", "a">>,
     <<"p", "r", "a", "t", "y", "e", "k">>, <<"m", "a">>, <<"k", "a", "a", "m">>,
     <<"p", "a", "t", "h", "a", "u">>, <<"b", "h", "a", "n">>, <<"s", "o", "d", "h", "a">>,
     <<"r", "o", "k">>, <<"j", "a", "n", "e">>, <<"r", "a">>, <<"w", "a">>,
     <<"h", "o", "i", "n", "a">>, <<"s", "a", "h", "i">>, <<"g", "a", "l", "a", "t">>,
     <<"a", "a", "y", "a", "a", "t">>}

LexerNew(code) == [code |-> code, pos |-> 0, line |-> 1, column |-> 1]

current_char(lx) == IF lx.pos >= Len(lx.code) THEN None ELSE Some(lx.code[lx.pos + 1])

\* the lexer after the character at l was consumed
advanced(l) ==
    [l EXCEPT !.line = IF current_char(l) = Some("\n") THEN @ + 1 ELSE @,
              !.column = IF current_char(l) = Some("\n") THEN 1 ELSE @ + 1,
              !.pos = @ + 1]

\* lx names an expression of nested advances in the readers below: it is
\* bound once here, so that a reader's cost stays linear in what it reads
advance(lx) == CHOOSE next \in {advanced(l) : l \in {lx}} : TRUE

peek(lx) == IF lx.pos + 1 >= Len(lx.code) THEN None ELSE Some(lx.code[lx.pos + 2])

\* a skip_whitespace that leaves the lexer where it is
skip_whitespace_nothing(lx) == lx

RECURSIVE skip_whitespace(_)
skip_whitespace(lx) ==
    IF current_char(lx).some /\ is_whitespace(current_char(lx).v) /\ current_char(lx).v # "\n"
    THEN skip_whitespace(advance(lx))
    ELSE lx

RECURSIVE skip_to_newline(_)
skip_to_newline(lx) ==
    IF current_char(lx).some /\ current_char(lx).v # "\n"
    THEN skip_to_newline(advance(lx))
    ELSE lx

skip_comment(lx) ==
    IF current_char(lx) = Some("/") /\ peek(lx) = Some("/") THEN skip_to_newline(lx) ELSE lx

\* the readers return the lexer after the token and the token's text
RECURSIVE read_number(_, _, _)
read_number(lx, number, has_dot) ==
    IF current_char(lx).some /\ is_ascii_digit(current_char(lx).v)
    THEN read_number(advance(lx), Append(number, current_char(lx).v), has_dot)
    ELSE IF current_char(lx) = Some(".") /\ ~has_dot
    THEN read_number(advance(lx), Append(number, "."), TRUE)
    ELSE [lx |-> lx, text |-> number]

RECURSIVE read_identifier(_, _)
read_identifier(lx, identifier) ==
    IF current_char(lx).some /\ (is_alphanumeric(current_char(lx).v) \/ current_char(lx).v = "_")
    THEN read_identifier(advance(lx), Append(identifier, current_char(lx).v))
    ELSE [lx |-> lx, text |-> identifier]

\* the character an escape sequence stands for
escaped(ch) ==
    CASE ch = "n" -> "\n"
      [] ch = "t" -> "\t"
      [] ch = "r" -> "\r"
      [] OTHER -> ch

\* read_string after the opening quote was skipped
RECURSIVE read_string_rest(_, _)
read_string_rest(lx, string) ==
    IF ~current_char(lx).some
    THEN [ok |-> FALSE, lx |-> lx, err |-> <<"Unterminated string literal">>]
    ELSE IF current_char(lx).v = "\""
    THEN [ok |-> TRUE, lx |-> advance(lx), text |-> string]
    ELSE IF current_char(lx).v = "\\"
    THEN IF ~current_char(advance(lx)).some
         THEN [ok |-> FALSE, lx |-> advance(lx), err |-> <<"Unterminated string literal">>]
         ELSE read_string_rest(advance(advance(lx)),
                               Append(string, escaped(current_char(advance(lx)).v)))
    ELSE IF current_char(lx).v = "\n"
    THEN [ok |-> FALSE, lx |-> lx, err |-> <<"Unterminated string literal">>]
    ELSE read_string_rest(advance(lx), Append(string, current_char(lx).v))

read_string(lx) == read_string_rest(advance(lx), <<>>)

read_operator(lx) ==
    CASE current_char(lx).some /\ current_char(lx).v \in {"=", "!", ">", "<"} ->
            IF current_char(advance(lx)) = Some("=")
            THEN [lx |-> advance(advance(lx)), text |-> <<current_char(lx).v, "=">>]
            ELSE [lx |-> advance(lx), text |-> <<current_char(lx).v>>]
      [] current_char(lx).some /\ current_char(lx).v \in {"+", "-", "*", "/", "%"} ->
            [lx |-> advance(lx), text |-> <<current_char(lx).v>>]
      [] OTHER -> [lx |-> lx, text |-> <<>>]

Token(token_type, value, lx) ==
    [token_type |-> token_type, value |-> value, line |-> lx.line, column |-> lx.column]

Delimiters ==
    [ch \in {"{", "}", "(", ")", "[", "]", ",", ":"} |->
        CASE ch = "{" -> "LBrace" [] ch = "}" -> "RBrace"
          [] ch = "(" -> "LParen" [] ch = ")" -> "RParen"
          [] ch = "[" -> "LBracket" [] ch = "]" -> "RBracket"
          [] ch = "," -> "Comma" [] ch = ":" -> "Colon"]

\* a token whose text a reader has read: pushed with the position at which
\* the iteration began
read_token(token_type, read, lx, tokens) ==
    [lx |-> read.lx, tokens |-> Append(tokens, Token(token_type, read.text, lx)), err |-> None]

\* one iteration of the loop of tokenize, on the current character ch
tokenize_iteration(lx, tokens, ch) ==
    CASE ch \in {" ", "\t", "\r"} -> [lx |-> skip_whitespace(lx), tokens |-> tokens, err |-> None]
      [] ch = "\n" ->
            [lx |-> advance(lx), tokens |-> Append(tokens, Token("Newline", <<"\n">>, lx)),
             err |-> None]
      [] ch = "/" /\ peek(lx) = Some("/") ->
            [lx |-> skip_comment(lx), tokens |-> tokens, err |-> None]
      [] ch = "\"" ->
            IF read_string(lx).ok
            THEN read_token("String", read_string(lx), lx, tokens)
            ELSE [lx |-> read_string(lx).lx, tokens |-> tokens, err |-> Some(read_string(lx).err)]
      [] is_ascii_digit(ch) -> read_token("Number", read_number(lx, <<>>, FALSE), lx, tokens)
      [] is_alphabetic(ch) \/ ch = "_" ->
            read_token(IF read_identifier(lx, <<>>).text \in keywords
                       THEN "Keyword" ELSE "Identifier",
                       read_identifier(lx, <<>>), lx, tokens)
      [] ch \in {"=", "!", ">", "<", "+", "-", "*", "%"} \/ (ch = "/" /\ peek(lx) # Some("/")) ->
            read_token("Operator", read_operator(lx), lx, tokens)
      [] ch \in DOMAIN Delimiters ->
            [lx |-> advance(lx), tokens |-> Append(tokens, Token(Delimiters[ch], <<ch>>, lx)),
             err |-> None]
      [] OTHER ->
            [lx |-> lx, tokens |-> tokens,
             err |-> Some(<<"Unexpected character '", ch, "' at line ", ToString(lx.line),
                            ", column ", ToString(lx.column)>>)]

(***************************************************************************)
(* parser.rs: the recursive-descent parser.  p is the Parser: its tokens   *)
(* and its position; current_token is what the position selects.  A       *)
(* token's text is one string here, as in the parser's unit tests.  A     *)
(* parse function returns POk(parser after, what it built) or PErr(msg).   *)
(***************************************************************************)
ParserNew(tokens) == [tokens |-> tokens, pos |-> 0]

current_token(p) == IF p.pos >= Len(p.tokens) THEN None ELSE Some(p.tokens[p.pos + 1])

parser_advance(p) == [p EXCEPT !.pos = @ + 1]

parser_peek(p) == IF p.pos + 1 >= Len(p.tokens) THEN None ELSE Some(p.tokens[p.pos + 2])

POk(p, node) == [ok |-> TRUE, p |-> p, node |-> node]
PErr(msg) == [ok |-> FALSE, err |-> msg]

\* `token.token_type == token_type` on the current token, false at the end
is_type(p, token_type) ==
    current_token(p).some /\ current_token(p).v.token_type = token_type

\* `token.token_type == token_type && token.value == value`
is_token(p, token_type, value) ==
    is_type(p, token_type) /\ current_token(p).v.value = value

expect(p, token_type) ==
    IF current_token(p).some
    THEN IF current_token(p).v.token_type = token_type
         THEN POk(parser_advance(p), current_token(p).v)
         ELSE PErr(<<"Expected ", token_type, ", found ", current_token(p).v.token_type,
                     " at line ", ToString(current_token(p).v.line)>>)
    ELSE PErr(<<"Expected ", token_type, ", found EOF">>)

expect_keyword(p, keyword) ==
    IF current_token(p).some
    THEN IF is_token(p, "Keyword", keyword)
         THEN POk(parser_advance(p), current_token(p).v)
         ELSE PErr(<<"Expected keyword '", keyword, "', found '", current_token(p).v.value,
                     "' at line ", ToString(current_token(p).v.line)>>)
    ELSE PErr(<<"Expected keyword '", keyword, "', found EOF">>)

RECURSIVE skip_newlines(_)
skip_newlines(p) == IF is_type(p, "Newline") THEN skip_newlines(parser_advance(p)) ELSE p

new_var_declaration(name, type_hint, value) ==
    [k |-> "VarDeclaration", name |-> name, type_hint |-> type_hint, value |-> value]

\* the operators each level of parse_expression loops on
comparison_operators == {"==", "!=", ">", "<", ">=", "<="}
addition_operators == {"+", "-"}
multiplication_operators == {"*", "/", "%"}

RECURSIVE parse_statements(_, _, _), parse_statement(_), parse_block(_),
          parse_index_assignment_or_expression(_), parse_if_statement(_),
          parse_else(_, _, _), parse_while_loop(_), parse_for_each_loop(_),
          parse_function_declaration(_), parse_expression(_),
          parse_logical_or(_), logical_or_loop(_, _),
          parse_logical_and(_), logical_and_loop(_, _),
          parse_comparison(_), comparison_loop(_, _),
          parse_addition(_), addition_loop(_, _),
          parse_multiplication(_), multiplication_loop(_, _),
          parse_unary(_), parse_primary(_), primary_suffix(_, _),
          call_arguments(_, _), list_elements(_, _), dictionary_pairs(_, _),
          parameters_loop(_, _)

\* `while let Some(ref token) = self.current_token { .. }` of parse and of
\* every block: statements up to the closing token type (EOF for parse)
parse_statements(p, statements, closing) ==
    IF ~current_token(p).some \/ is_type(p, closing)
    THEN POk(p, statements)
    ELSE IF is_type(p, "Newline")
    THEN parse_statements(parser_advance(p), statements, closing)
    ELSE Try(parse_statement(p), LAMBDA stmt :
             parse_statements(skip_newlines(stmt.p), Append(statements, stmt.node), closing))

parse(p) ==
    Try(parse_statements(skip_newlines(p), <<>>, "EOF"), LAMBDA r :
        POk(r.p, Program(r.node)))

\* `{` statements `}`
parse_block(p) ==
    Try(expect(p, "LBrace"), LAMBDA open :
    Try(parse_statements(skip_newlines(open.p), <<>>, "RBrace"), LAMBDA body :
    Try(expect(body.p, "RBrace"), LAMBDA close :
        POk(close.p, body.node))))

\* parse_var_declaration after the name and its optional type hint
var_declaration_value(p, name, type_hint) ==
    Try(expect(p, "Operator"), LAMBDA op :
    Try(parse_expression(op.p), LAMBDA value :
        POk(value.p, new_var_declaration(name, type_hint, value.node))))

parse_var_declaration(p) ==
    Try(expect_keyword(p, "maanau"), LAMBDA kw :
    Try(expect(kw.p, "Identifier"), LAMBDA name_token :
        IF is_type(name_token.p, "Colon")
        THEN Try(expect(parser_advance(name_token.p), "Identifier"), LAMBDA type_token :
                 var_declaration_value(type_token.p, name_token.node.value,
                                       Some(type_token.node.value)))
        ELSE var_declaration_value(name_token.p, name_token.node.value, None)))

parse_assignment(p) ==
    Try(expect(p, "Identifier"), LAMBDA name_token :
    Try(expect(name_token.p, "Operator"), LAMBDA op :
    Try(parse_expression(op.p), LAMBDA value :
        POk(value.p, Assignment(name_token.node.value, value.node)))))

parse_index_assignment_or_expression(p) ==
    Try(parse_expression(p), LAMBDA expr :
        IF is_token(expr.p, "Operator", "=")
        THEN IF expr.node.k = "IndexAccess"
             THEN Try(parse_expression(parser_advance(expr.p)), LAMBDA value :
                      POk(value.p, IndexAssignment(expr.node.object, expr.node.index,
                                                   value.node)))
             ELSE PErr(<<"Invalid left-hand side in assignment">>)
        ELSE expr)

\* parse_if_statement after the then block: the optional natra block
parse_else(p, condition, then_block) ==
    IF is_token(p, "Keyword", "natra")
    THEN Try(parse_block(parser_advance(p)), LAMBDA else_statements :
             POk(else_statements.p,
                 IfStatement(condition, then_block, Some(else_statements.node))))
    ELSE POk(p, IfStatement(condition, then_block, None))

parse_if_statement(p) ==
    Try(expect_keyword(p, "yedi"), LAMBDA kw :
    Try(parse_expression(kw.p), LAMBDA condition :
    Try(expect_keyword(condition.p, "bhane"), LAMBDA bhane :
    Try(parse_block(bhane.p), LAMBDA then_block :
        parse_else(then_block.p, condition.node, then_block.node)))))

parse_while_loop(p) ==
    Try(expect_keyword(p, "jaba"), LAMBDA jaba :
    Try(expect_keyword(jaba.p, "samma"), LAMBDA samma :
    Try(parse_expression(samma.p), LAMBDA condition :
    Try(parse_block(condition.p), LAMBDA body :
        POk(body.p, WhileLoop(condition.node, body.node))))))

parse_for_each_loop(p) ==
    Try(expect_keyword(p, "pratyek"), LAMBDA kw :
    Try(expect(kw.p, "Identifier"), LAMBDA var_token :
    Try(expect_keyword(var_token.p, "ma"), LAMBDA ma :
    Try(parse_expression(ma.p), LAMBDA iterable :
    Try(parse_block(iterable.p), LAMBDA body :
        POk(body.p, ForEachLoop(var_token.node.value, iterable.node, body.node)))))))

\* `loop { let param_token = self.expect(Identifier)?; .. }`
parameters_loop(p, parameters) ==
    Try(expect(p, "Identifier"), LAMBDA param_token :
        IF is_type(param_token.p, "Comma")
        THEN parameters_loop(parser_advance(param_token.p),
                             Append(parameters, param_token.node.value))
        ELSE POk(param_token.p, Append(parameters, param_token.node.value)))

parse_parameters(p) ==
    IF current_token(p).some /\ ~is_type(p, "RParen")
    THEN parameters_loop(p, <<>>)
    ELSE POk(p, <<>>)

parse_function_declaration(p) ==
    Try(expect_keyword(p, "kaam"), LAMBDA kw :
    Try(expect(kw.p, "Identifier"), LAMBDA name_token :
    Try(expect(name_token.p, "LParen"), LAMBDA open :
    Try(parse_parameters(open.p), LAMBDA parameters :
    Try(expect(parameters.p, "RParen"), LAMBDA close :
    Try(parse_block(close.p), LAMBDA body :
        POk(body.p, FunctionDeclaration(name_token.node.value, parameters.node,
                                        body.node))))))))

parse_return_statement(p) ==
    Try(expect_keyword(p, "pathau"), LAMBDA kw :
    Try(parse_expression(kw.p), LAMBDA expr : POk(expr.p, Return(expr.node))))

parse_print_statement(p) ==
    Try(expect_keyword(p, "bhan"), LAMBDA kw :
    Try(parse_expression(kw.p), LAMBDA expr : POk(expr.p, Print_(expr.node))))

parse_break_statement(p) ==
    Try(expect_keyword(p, "rok"), LAMBDA kw : POk(kw.p, Break))

parse_continue_statement(p) ==
    Try(expect_keyword(p, "jane"), LAMBDA kw : POk(kw.p, Continue))

parse_import_statement(p) ==
    Try(expect_keyword(p, "aayaat"), LAMBDA kw :
    Try(expect(kw.p, "String"), LAMBDA filename_token :
        POk(filename_token.p, Import(filename_token.node.value))))

\* parse_statement on a Keyword token
parse_keyword_statement(p, keyword) ==
    CASE keyword = "maanau" -> parse_var_declaration(p)
      [] keyword = "yedi" -> parse_if_statement(p)
      [] keyword = "jaba" -> parse_while_loop(p)
      [] keyword = "pratyek" -> parse_for_each_loop(p)
      [] keyword = "kaam" -> parse_function_declaration(p)
      [] keyword = "pathau" -> parse_return_statement(p)
      [] keyword = "bhan" -> parse_print_statement(p)
      [] keyword = "rok" -> parse_break_statement(p)
      [] keyword = "jane" -> parse_continue_statement(p)
      [] keyword = "aayaat" -> parse_import_statement(p)
      [] OTHER -> PErr(<<"Unexpected keyword '", keyword, "' at line ",
                         ToString(current_token(p).v.line)>>)

\* parse_statement on an Identifier token: what the next token selects
parse_identifier_statement(p) ==
    IF parser_peek(p).some /\ parser_peek(p).v.token_type = "Operator"
                           /\ parser_peek(p).v.value = "="
    THEN parse_assignment(p)
    ELSE IF parser_peek(p).some /\ parser_peek(p).v.token_type = "LBracket"
    THEN parse_index_assignment_or_expression(p)
    ELSE parse_expression(p)

parse_statement(p) ==
    IF ~current_token(p).some
    THEN PErr(<<"Unexpected end of input">>)
    ELSE IF is_type(p, "Keyword")
    THEN parse_keyword_statement(p, current_token(p).v.value)
    ELSE IF is_type(p, "Identifier")
    THEN parse_identifier_statement(p)
    ELSE parse_expression(p)

parse_expression(p) == parse_logical_or(p)

logical_or_loop(p, left) ==
    IF is_token(p, "Keyword", "wa")
    THEN Try(parse_logical_and(parser_advance(p)), LAMBDA right :
             logical_or_loop(right.p, BinaryOp(left, "wa", right.node)))
    ELSE POk(p, left)

parse_logical_or(p) ==
    Try(parse_logical_and(p), LAMBDA left : logical_or_loop(left.p, left.node))

logical_and_loop(p, left) ==
    IF is_token(p, "Keyword", "ra")
    THEN Try(parse_comparison(parser_advance(p)), LAMBDA right :
             logical_and_loop(right.p, BinaryOp(left, "ra", right.node)))
    ELSE POk(p, left)

parse_logical_and(p) ==
    Try(parse_comparison(p), LAMBDA left : logical_and_loop(left.p, left.node))

comparison_loop(p, left) ==
    IF is_type(p, "Operator") /\ current_token(p).v.value \in comparison_operators
    THEN Try(parse_addition(parser_advance(p)), LAMBDA right :
             comparison_loop(right.p, BinaryOp(left, current_token(p).v.value, right.node)))
    ELSE POk(p, left)

parse_comparison(p) ==
    Try(parse_addition(p), LAMBDA left : comparison_loop(left.p, left.node))

addition_loop(p, left) ==
    IF is_type(p, "Operator") /\ current_token(p).v.value \in addition_operators
    THEN Try(parse_multiplication(parser_advance(p)), LAMBDA right :
             addition_loop(right.p, BinaryOp(left, current_token(p).v.value, right.node)))
    ELSE POk(p, left)

parse_addition(p) ==
    Try(parse_multiplication(p), LAMBDA left : addition_loop(left.p, left.node))

multiplication_loop(p, left) ==
    IF is_type(p, "Operator") /\ current_token(p).v.value \in multiplication_operators
    THEN Try(parse_unary(parser_advance(p)), LAMBDA right :
             multiplication_loop(right.p,
                                 BinaryOp(left, current_token(p).v.value, right.node)))
    ELSE POk(p, left)

\* a parse_multiplication that hands every operand on without looking for
\* an operator of its level
parse_multiplication_no_level(p) == parse_unary(p)

parse_multiplication(p) ==
    Try(parse_unary(p), LAMBDA left : multiplication_loop(left.p, left.node))

parse_unary(p) ==
    IF ~current_token(p).some
    THEN PErr(<<"Unexpected end of input">>)
    ELSE IF is_token(p, "Keyword", "hoina") \/ is_token(p, "Operator", "-")
    THEN Try(parse_unary(parser_advance(p)), LAMBDA operand :
             POk(operand.p, UnaryOp(current_token(p).v.value, operand.node)))
    ELSE parse_primary(p)

\* `loop { let arg = self.parse_expression()?; .. }` of a call
call_arguments(p, arguments) ==
    Try(parse_expression(p), LAMBDA arg :
        IF is_type(arg.p, "Comma")
        THEN call_arguments(parser_advance(arg.p), Append(arguments, arg.node))
        ELSE POk(arg.p, Append(arguments, arg.node)))

\* the call suffix after its '(' was skipped
parse_call(p, func_name) ==
    Try(IF current_token(p).some /\ ~is_type(p, "RParen")
        THEN call_arguments(p, <<>>) ELSE POk(p, <<>>), LAMBDA arguments :
    Try(expect(arguments.p, "RParen"), LAMBDA close :
        primary_suffix(close.p, FunctionCall(func_name, arguments.node))))

\* `loop { .. }` of parse_primary on an Identifier: the call and index
\* suffixes that follow what was parsed so far
primary_suffix(p, node) ==
    IF is_type(p, "LParen")
    THEN IF node.k = "Identifier"
         THEN parse_call(parser_advance(p), node.name)
         ELSE PErr(<<"Cannot call function on non-identifier">>)
    ELSE IF is_type(p, "LBracket")
    THEN Try(parse_expression(parser_advance(p)), LAMBDA index :
         Try(expect(index.p, "RBracket"), LAMBDA close :
             primary_suffix(close.p, IndexAccess(node, index.node))))
    ELSE POk(p, node)

\* `loop { let element = self.parse_expression()?; .. }` of a list literal
list_elements(p, elements) ==
    Try(parse_expression(p), LAMBDA element :
        IF is_type(skip_newlines(element.p), "Comma")
        THEN list_elements(skip_newlines(parser_advance(skip_newlines(element.p))),
                           Append(elements, element.node))
        ELSE POk(skip_newlines(element.p), Append(elements, element.node)))

parse_list_literal(p) ==
    Try(IF current_token(p).some /\ ~is_type(p, "RBracket")
        THEN list_elements(p, <<>>) ELSE POk(p, <<>>), LAMBDA elements :
    Try(expect(elements.p, "RBracket"), LAMBDA close :
        POk(close.p, ListLiteral(elements.node))))

\* `loop { let key_token = self.expect(String)?; .. }` of a dictionary literal
dictionary_pairs(p, pairs) ==
    Try(expect(p, "String"), LAMBDA key_token :
    Try(expect(key_token.p, "Colon"), LAMBDA colon :
    Try(parse_expression(skip_newlines(colon.p)), LAMBDA value :
        IF is_type(skip_newlines(value.p), "Comma")
        THEN dictionary_pairs(skip_newlines(parser_advance(skip_newlines(value.p))),
                              Append(pairs, <<key_token.node.value, value.node>>))
        ELSE POk(skip_newlines(value.p),
                 Append(pairs, <<key_token.node.value, value.node>>)))))

parse_dictionary_literal(p) ==
    Try(IF current_token(p).some /\ ~is_type(p, "RBrace")
        THEN dictionary_pairs(p, <<>>) ELSE POk(p, <<>>), LAMBDA pairs :
    Try(expect(pairs.p, "RBrace"), LAMBDA close :
        POk(close.p, DictionaryLiteral(pairs.node))))

\* parse_primary on a Keyword token
parse_keyword_primary(p, keyword) ==
    CASE keyword = "sahi" -> POk(parser_advance(p), Boolean(TRUE))
      [] keyword = "galat" -> POk(parser_advance(p), Boolean(FALSE))
      [] OTHER -> PErr(<<"Unexpected keyword '", keyword, "' in expression">>)

\* parse_primary on the current token, by its type
parse_primary_of(p, token) ==
    CASE token.token_type = "Number" -> POk(parser_advance(p), Number(token.value))
      [] token.token_type = "String" -> POk(parser_advance(p), String(token.value))
      [] token.token_type = "Keyword" -> parse_keyword_primary(p, token.value)
      [] token.token_type = "Identifier" ->
            primary_suffix(parser_advance(p), Identifier(token.value))
      [] token.token_type = "LBracket" ->
            parse_list_literal(skip_newlines(parser_advance(p)))
      [] token.token_type = "LBrace" ->
            parse_dictionary_literal(skip_newlines(parser_advance(p)))
      [] token.token_type = "LParen" ->
            Try(parse_expression(parser_advance(p)), LAMBDA expr :
            Try(expect(expr.p, "RParen"), LAMBDA close : POk(close.p, expr.node)))
      [] OTHER -> PErr(<<"Unexpected token ", ToString(token), " in expression">>)

parse_primary(p) ==
    IF current_token(p).some
    THEN parse_primary_of(p, current_token(p).v)
    ELSE PErr(<<"Unexpected end of input in expression">>)

\* no for-each loop is in progress
NotLooping == [items |-> <<>>, i |-> 0, done |-> TRUE]

\* a Parser that has been handed nothing yet
NotParsing == [input |-> <<"none">>, tokens |-> <<>>, result |-> [done |-> FALSE]]

(***************************************************************************)
(* The state after Interpreter::new()                                      *)
(***************************************************************************)
InterpreterNew ==
    /\ environment = EnvironmentNew
    /\ functions = EmptyMap
    /\ imported_modules = EmptyMap
    /\ importing_stack = <<>>
    /\ line = <<"none">>
    /\ result = [ok |-> TRUE, v |-> VNull]
    /\ output = <<>>
    /\ trace = <<>>
    /\ runs = [f \in FileNames |-> 0]
    /\ succeeded = {}
    /\ lines = 0
    /\ call = [op |-> "new"]
    /\ outer = << EmptyMap >>

\* tokenize about to start on a Lexer::new(code)
Tokenizing(code) == [lx |-> LexerNew(code), tokens |-> <<>>, result |-> [done |-> FALSE]]

Init ==
    /\ InterpreterNew
    /\ lexer = Tokenizing(<<>>)
    /\ parser = NotParsing
    /\ loop = NotLooping

Count(seq, x) == Cardinality({i \in 1..Len(seq) : seq[i] = x})

(***************************************************************************)
(* main.rs run_line: one REPL line on the interpreter the REPL keeps       *)
(***************************************************************************)
Interpreter ==
    [environment |-> environment, functions |-> functions,
     imported_modules |-> imported_modules, importing_stack |-> importing_stack,
     output |-> <<>>, trace |-> <<>>]

\* the interpreter after the call, what the call returned and printed
Returned(r) ==
    /\ environment' = r.st.environment
    /\ functions' = r.st.functions
    /\ imported_modules' = r.st.imported_modules
    /\ importing_stack' = r.st.importing_stack
    /\ output' = r.st.output
    /\ trace' = r.st.trace
    /\ result' = IF r.ok THEN [ok |-> TRUE, v |-> r.v] ELSE [ok |-> FALSE, err |-> r.err]
    /\ runs' = [f \in FileNames |-> runs[f] + Count(r.st.trace, <<"begin", f>>)]
    /\ succeeded' = succeeded \cup {f \in FileNames : Contains(r.st.trace, <<"end", f, "Ok">>)}

Interpret(input) ==
    /\ lines < MaxLines
    /\ Returned(interpret(Node(input), Interpreter))
    /\ line' = input
    /\ lines' = lines + 1
    /\ UNCHANGED <<call, outer, lexer, parser, loop>>

Next == \E input \in Inputs : Interpret(input)

Spec == Init /\ [][Next]_vars


(***************************************************************************)
(* main.rs run_program: one program file on an interpreter of its own.     *)
(* A program is a text with holes; the parameters fill the holes.          *)
(***************************************************************************)
\* the node the parser returns for an integer literal: -3 is the unary
\* minus applied to the literal 3
NumLit(i) == IF i < 0 THEN UnaryOp("-", Number(nat_chars(0 - i))) ELSE Number(nat_chars(i))

\* the elements 10, 20, .. of the lists the programs declare
Elem(k) == 10 * k
Elems(n) == [k \in 1..n |-> VNumber(Elem(k))]
ListLit(n) == ListLiteral([k \in 1..n |-> NumLit(Elem(k))])

IndexPrograms ==
    {<<kind, [n |-> n, i |-> i]>> :
        kind \in {"list read", "list write"}, n \in 0..MaxLen, i \in (0 - MaxIndex)..MaxIndex}

\* the keys of the dictionary the programs declare, and one more key
Keys == {<<"a">>, <<"b">>, <<"c">>}
DictLit == DictionaryLiteral(<< <<(<<"a">>), NumLit(1)>>, <<(<<"b">>), NumLit(2)>> >>)
DictVal == (<<"a">> :> VNumber(1)) @@ (<<"b">> :> VNumber(2))

AliasPrograms ==
    {<<kind, [n |-> n, i |-> i]>> :
        kind \in {"list alias", "list shadow"}, n \in 1..MaxLen, i \in (0 - MaxIndex)..MaxIndex}
    \cup {<<"dict alias", [key |-> key]>> : key \in Keys}

\* the ways the programs write a right operand that is zero
Zeros == {"0", "0.0", "-0", "1 - 1"}

ZeroNode(zero) ==
    CASE zero = "0" -> Number(<<"0">>)
      [] zero = "0.0" -> Number(<<"0", ".", "0">>)
      [] zero = "-0" -> UnaryOp("-", Number(<<"0">>))
      [] zero = "1 - 1" -> BinaryOp(NumLit(1), "-", NumLit(1))

ZeroPrograms ==
    {<<"by zero", [l |-> l, op |-> op, r |-> zero]>> :
        l \in (0 - MaxIndex)..MaxIndex, op \in {"/", "%"}, zero \in Zeros}

\* where the program declares h and where it calls it
Orders == {"call first", "declare first", "declare twice", "declare twice, old call",
           "declared in uncalled body", "declared in called body"}

DeclarePrograms ==
    {<<"declare", [order |-> o, k |-> k]>> : o \in Orders, k \in 0..MaxIndex}

\* kaam h(a) { pathau a + 1 }
DeclareH1 ==
    FunctionDeclaration("h", <<"a">>, <<Return(BinaryOp(Identifier("a"), "+", NumLit(1)))>>)

\* kaam h(a, b) { pathau a * b }
DeclareH2 ==
    FunctionDeclaration("h", <<"a", "b">>,
        <<Return(BinaryOp(Identifier("a"), "*", Identifier("b")))>>)

ParamNames == <<"a", "b", "c", "d", "e">>

CountPrograms ==
    {<<"count", [params |-> np, args |-> na]>> : np \in 0..MaxArgs, na \in 0..MaxArgs}

\* where the program executes its import of "lib"
Places == {"top level", "if block", "loop body", "function body"}

ImportPrograms == {<<"import at", [place |-> place]>> : place \in Places}

ImportNode(a) ==
    CASE a.place = "top level" ->
            \* aayaat "lib" / pathau v
            Program(<<Import("lib"), Return(Identifier("v"))>>)
      [] a.place = "if block" ->
            \* yedi sahi bhane { aayaat "lib" / bhan v } / pathau v
            Program(<<IfStatement(Boolean(TRUE),
                          <<Import("lib"), Print_(Identifier("v"))>>, None),
                      Return(Identifier("v"))>>)
      [] a.place = "loop body" ->
            \* pratyek e ma [1] { aayaat "lib" / bhan v } / pathau v
            Program(<<ForEachLoop("e", ListLiteral(<<NumLit(1)>>),
                          <<Import("lib"), Print_(Identifier("v"))>>),
                      Return(Identifier("v"))>>)
      [] a.place = "function body" ->
            \* kaam imp() { aayaat "lib" / bhan v } / imp() / pathau v
            Program(<<FunctionDeclaration("imp", <<>>,
                          <<Import("lib"), Print_(Identifier("v"))>>),
                      FunctionCall("imp", <<>>),
                      Return(Identifier("v"))>>)

\* the local scope the caller holds when it calls callee
Callers == {"function body", "if block"}

ScopePrograms ==
    {<<"caller scope", [caller |-> c, k |-> k]>> : c \in Callers, k \in 0..MaxIndex}

\* kaam callee(p) { bhan loc / loc = loc + p / bhan p / p = 99 }
DeclareCallee ==
    FunctionDeclaration("callee", <<"p">>,
        <<Print_(Identifier("loc")),
          Assignment("loc", BinaryOp(Identifier("loc"), "+", Identifier("p"))),
          Print_(Identifier("p")),
          Assignment("p", NumLit(99))>>)

\* maanau loc = 10 / maanau p = 5 / callee(k) / pathau [loc, p]
CallerBody(k) ==
    <<VarDeclaration("loc", NumLit(10)),
      VarDeclaration("p", NumLit(5)),
      FunctionCall("callee", <<NumLit(k)>>),
      Return(ListLiteral(<<Identifier("loc"), Identifier("p")>>))>>

ScopeNode(a) ==
    CASE a.caller = "function body" ->
            \* kaam callee(p) { .. } / kaam caller() { .. } / pathau caller()
            Program(<<DeclareCallee,
                      FunctionDeclaration("caller", <<>>, CallerBody(a.k)),
                      Return(FunctionCall("caller", <<>>))>>)
      [] a.caller = "if block" ->
            \* kaam callee(p) { .. } / yedi sahi bhane { .. }
            Program(<<DeclareCallee, IfStatement(Boolean(TRUE), CallerBody(a.k), None)>>)

\* a while loop over i = 1..n whose body leaves through rok, jane or pathau
\* when i = b
Exits == {"rok", "jane", "pathau"}
WhilePrograms ==
    {<<"while", [n |-> n, b |-> b, exit |-> exit]>> :
        n \in 0..MaxLen, b \in 1..(MaxLen + 1), exit \in Exits}

ExitNode(exit) ==
    CASE exit = "rok" -> Break
      [] exit = "jane" -> Continue
      [] exit = "pathau" -> Return(Identifier("i"))

\* maanau i = 0
\* kaam c() { bhan "c" / pathau i < n }
\* jaba samma c() { i = i + 1 / yedi i == b bhane { rok | jane | pathau i } / bhan i }
\* pathau 100 + i
WhileNode(a) ==
    Program(<<VarDeclaration("i", NumLit(0)),
              FunctionDeclaration("c", <<>>,
                  <<Print_(String(<<"c">>)),
                    Return(BinaryOp(Identifier("i"), "<", NumLit(a.n)))>>),
              WhileLoop(FunctionCall("c", <<>>),
                  <<Assignment("i", BinaryOp(Identifier("i"), "+", NumLit(1))),
                    IfStatement(BinaryOp(Identifier("i"), "==", NumLit(a.b)),
                                <<ExitNode(a.exit)>>, None),
                    Print_(Identifier("i"))>>),
              Return(BinaryOp(NumLit(100), "+", Identifier("i")))>>)

\* the strings the programs iterate and index: empty, ASCII, and with
\* characters of two and three bytes
Strings == {<<>>, <<"a", "b">>, <<"n", "U+00E9">>, <<"U+0928", "a">>}

\* what the for-each programs iterate over
Iterables ==
    {<<"list", n>> : n \in 0..MaxLen} \cup {<<"string", s>> : s \in Strings}
    \cup {<<"dictionary", n>> : n \in 0..2}
    \cup {<<"number">>, <<"boolean">>, <<"null">>}

ForEachPrograms ==
    {<<"for each", [over |-> over, assign |-> assign]>> :
        over \in Iterables, assign \in BOOLEAN}

\* {}, {"a": 1}, {"a": 1, "b": 2}
DictOf(n) == DictionaryLiteral(SubSeq(DictLit.pairs, 1, n))

IterableNode(over) ==
    CASE over[1] = "list" -> ListLit(over[2])
      [] over[1] = "string" -> String(over[2])
      [] over[1] = "dictionary" -> DictOf(over[2])
      [] over[1] = "number" -> NumLit(5)
      [] over[1] = "boolean" -> Boolean(TRUE)
      [] over[1] = "null" -> FunctionCall("nothing", <<>>)

\* maanau e = 77 / kaam nothing() { }
\* pratyek e ma <iterable> { bhan e / e = 0 }       (e = 0 when a.assign)
\* pathau e
ForEachNode(a) ==
    Program(<<VarDeclaration("e", NumLit(77)),
              FunctionDeclaration("nothing", <<>>, <<>>),
              ForEachLoop("e", IterableNode(a.over),
                  <<Print_(Identifier("e"))>>
                  \o (IF a.assign THEN <<Assignment("e", NumLit(0))>> ELSE <<>>)),
              Return(Identifier("e"))>>)

\* the operands of ra and wa: a falsy and a truthy value of every type, and
\* a variable that is not defined
Operands == {"0", "5", "empty string", "string", "galat", "sahi", "empty list", "list",
             "empty dictionary", "dictionary", "null"}

LogicalPrograms ==
    {<<"logical", [l |-> l, op |-> op, r |-> r]>> :
        l \in Operands, op \in {"ra", "wa"}, r \in Operands \cup {"undefined"}}

OperandNode(operand) ==
    CASE operand = "0" -> NumLit(0)
      [] operand = "5" -> NumLit(5)
      [] operand = "empty string" -> String(<<>>)
      [] operand = "string" -> String(<<"a">>)
      [] operand = "galat" -> Boolean(FALSE)
      [] operand = "sahi" -> Boolean(TRUE)
      [] operand = "empty list" -> ListLit(0)
      [] operand = "list" -> ListLit(1)
      [] operand = "empty dictionary" -> DictOf(0)
      [] operand = "dictionary" -> DictOf(1)
      [] operand = "null" -> FunctionCall("nothing", <<>>)
      [] operand = "undefined" -> Identifier("nowhere")

\* kaam nothing() { } / kaam side() { bhan "side" / pathau <r> }
\* pathau <l> ra side()         or  pathau <l> wa side()
LogicalNode(a) ==
    Program(<<FunctionDeclaration("nothing", <<>>, <<>>),
              FunctionDeclaration("side", <<>>,
                  <<Print_(String(<<"s", "i", "d", "e">>)), Return(OperandNode(a.r))>>),
              Return(BinaryOp(OperandNode(a.l), a.op, FunctionCall("side", <<>>)))>>)

StringIndexPrograms ==
    {<<"string read", [s |-> s, i |-> i]>> : s \in Strings, i \in 0..MaxIndex}

\* maanau s = "<s>" / pathau s[i]
StringIndexNode(a) ==
    Program(<<VarDeclaration("s", String(a.s)),
              Return(IndexAccess(Identifier("s"), NumLit(a.i)))>>)

Programs ==
    IndexPrograms \cup AliasPrograms \cup ZeroPrograms \cup DeclarePrograms \cup CountPrograms
        \cup ImportPrograms \cup ScopePrograms \cup WhilePrograms \cup ForEachPrograms
        \cup LogicalPrograms \cup StringIndexPrograms

DeclareNode(a) ==
    CASE a.order = "call first" ->
            \* bhan h(k) / kaam h(a) { pathau a + 1 }
            Program(<<Print_(FunctionCall("h", <<NumLit(a.k)>>)), DeclareH1>>)
      [] a.order = "declare first" ->
            \* kaam h(a) { pathau a + 1 } / pathau h(k)
            Program(<<DeclareH1, Return(FunctionCall("h", <<NumLit(a.k)>>))>>)
      [] a.order = "declare twice" ->
            \* kaam h(a) { .. } / bhan h(k) / kaam h(a, b) { .. } / pathau h(k, 3)
            Program(<<DeclareH1, Print_(FunctionCall("h", <<NumLit(a.k)>>)), DeclareH2,
                      Return(FunctionCall("h", <<NumLit(a.k), NumLit(3)>>))>>)
      [] a.order = "declare twice, old call" ->
            \* kaam h(a) { .. } / kaam h(a, b) { .. } / pathau h(k)
            Program(<<DeclareH1, DeclareH2,
                      Return(FunctionCall("h", <<NumLit(a.k)>>))>>)
      [] a.order = "declared in uncalled body" ->
            \* kaam mk() { kaam h(a) { .. } } / pathau h(k)
            Program(<<FunctionDeclaration("mk", <<>>, <<DeclareH1>>),
                      Return(FunctionCall("h", <<NumLit(a.k)>>))>>)
      [] a.order = "declared in called body" ->
            \* kaam mk() { kaam h(a) { .. } } / mk() / pathau h(k)
            Program(<<FunctionDeclaration("mk", <<>>, <<DeclareH1>>),
                      FunctionCall("mk", <<>>),
                      Return(FunctionCall("h", <<NumLit(a.k)>>))>>)

ProgramNode(program) ==
    LET a == program[2] IN
    CASE program[1] = "list read" ->
            \* maanau x = [10, .., 10 * n] / pathau x[i]
            Program(<<VarDeclaration("x", ListLit(a.n)),
                      Return(IndexAccess(Identifier("x"), NumLit(a.i)))>>)
      [] program[1] = "list write" ->
            \* maanau x = [10, .., 10 * n] / x[i] = 7 / pathau x
            Program(<<VarDeclaration("x", ListLit(a.n)),
                      IndexAssignment(Identifier("x"), NumLit(a.i), NumLit(7)),
                      Return(Identifier("x"))>>)
      [] program[1] = "list alias" ->
            \* maanau x = [10, .., 10 * n] / maanau y = x / maanau z = [10, .., 10 * n]
            \* x[i] = 7 / pathau x[i]
            Program(<<VarDeclaration("x", ListLit(a.n)),
                      VarDeclaration("y", Identifier("x")),
                      VarDeclaration("z", ListLit(a.n)),
                      IndexAssignment(Identifier("x"), NumLit(a.i), NumLit(7)),
                      Return(IndexAccess(Identifier("x"), NumLit(a.i)))>>)
      [] program[1] = "list shadow" ->
            \* maanau x = [10, .., 10 * n]
            \* yedi sahi bhane { maanau x = [10, .., 10 * n] / x[i] = 7 / bhan x[i] }
            \* pathau x
            Program(<<VarDeclaration("x", ListLit(a.n)),
                      IfStatement(Boolean(TRUE),
                          <<VarDeclaration("x", ListLit(a.n)),
                            IndexAssignment(Identifier("x"), NumLit(a.i), NumLit(7)),
                            Print_(IndexAccess(Identifier("x"), NumLit(a.i)))>>, None),
                      Return(Identifier("x"))>>)
      [] program[1] = "dict alias" ->
            \* maanau d = {"a": 1, "b": 2} / maanau e = d / d[key] = 7 / pathau d[key]
            Program(<<VarDeclaration("d", DictLit),
                      VarDeclaration("e", Identifier("d")),
                      IndexAssignment(Identifier("d"), String(a.key), NumLit(7)),
                      Return(IndexAccess(Identifier("d"), String(a.key)))>>)
      [] program[1] = "by zero" ->
            \* pathau l / 0  and  pathau l % 0, the zero written as a.r
            Program(<<Return(BinaryOp(NumLit(a.l), a.op, ZeroNode(a.r)))>>)
      [] program[1] = "declare" -> DeclareNode(a)
      [] program[1] = "count" ->
            \* maanau n = 0
            \* kaam side() { n = n + 1 / bhan n / pathau n }
            \* kaam h(a, ..) { bhan 99 / pathau 5 }        with a.params parameters
            \* pathau h(side(), ..)                        with a.args arguments
            Program(<<VarDeclaration("n", NumLit(0)),
                      FunctionDeclaration("side", <<>>,
                          <<Assignment("n", BinaryOp(Identifier("n"), "+", NumLit(1))),
                            Print_(Identifier("n")),
                            Return(Identifier("n"))>>),
                      FunctionDeclaration("h", SubSeq(ParamNames, 1, a.params),
                          <<Print_(NumLit(99)), Return(NumLit(5))>>),
                      Return(FunctionCall("h", [i \in 1..a.args |-> FunctionCall("side", <<>>)]))>>)
      [] program[1] = "import at" -> ImportNode(a)
      [] program[1] = "caller scope" -> ScopeNode(a)
      [] program[1] = "while" -> WhileNode(a)
      [] program[1] = "for each" -> ForEachNode(a)
      [] program[1] = "logical" -> LogicalNode(a)
      [] program[1] = "string read" -> StringIndexNode(a)

RunProgram(program) ==
    /\ lines = 0
    /\ Returned(interpret(ProgramNode(program), Interpreter))
    /\ line' = program
    /\ lines' = 1
    /\ UNCHANGED <<call, outer, lexer, parser, loop>>

RunNext == \E program \in Programs : RunProgram(program)

RunSpec == Init /\ [][RunNext]_vars

(***************************************************************************)
(* lexer.rs tokenize, one loop iteration per step, on every source text of *)
(* at most MaxCode characters of the alphabet and on the texts of the      *)
(* lexer's unit tests.                                                     *)
(***************************************************************************)
Alphabet == {"1", ".", "a", "_", " ", "\n", "/", "\"", "\\", "=", "(", "U+000C"}

TestSources ==
    {<<"1", ".", "2", ".", "3">>,
     <<"1", "0", " ", "/", " ", "2">>,
     <<"m", "a", "a", "n", "a", "u", " ", "x", " ", "=", " ", "5">>}

Codes == UNION {[1..n -> Alphabet] : n \in 0..MaxCode} \cup TestSources

LexInit ==
    /\ InterpreterNew
    /\ parser = NotParsing
    /\ loop = NotLooping
    /\ \E code \in Codes : lexer = Tokenizing(code)

\* `while let Some(ch) = self.current_char { match ch { .. } }`
TokenizeStep ==
    /\ ~lexer.result.done
    /\ current_char(lexer.lx).some
    /\ LET it == tokenize_iteration(lexer.lx, lexer.tokens, current_char(lexer.lx).v) IN
       lexer' = [lx |-> it.lx, tokens |-> it.tokens,
                 result |-> IF it.err.some
                            THEN [done |-> TRUE, ok |-> FALSE, err |-> it.err.v]
                            ELSE [done |-> FALSE]]
    /\ UNCHANGED <<environment, functions, imported_modules, importing_stack, line, result,
                   output, trace, runs, succeeded, lines, call, outer, parser, loop>>

\* after the loop: push the EOF token and return Ok(tokens)
TokenizeEnd ==
    /\ ~lexer.result.done
    /\ ~current_char(lexer.lx).some
    /\ lexer' = [lexer EXCEPT !.tokens = Append(@, Token("EOF", <<>>, lexer.lx)),
                              !.result = [done |-> TRUE, ok |-> TRUE]]
    /\ UNCHANGED <<environment, functions, imported_modules, importing_stack, line, result,
                   output, trace, runs, succeeded, lines, call, outer, parser, loop>>

LexNext == TokenizeStep \/ TokenizeEnd

\* tokenize is a sequential loop: it takes its next step as long as it has one
LexSpec == LexInit /\ [][LexNext]_vars /\ WF_vars(LexNext)

(***************************************************************************)
(* parser.rs parse on token sequences built as the parser's unit tests     *)
(* build them: every token at line 1, column 1, EOF last.                  *)
(***************************************************************************)
make_token(token_type, value) ==
    [token_type |-> token_type, value |-> value, line |-> 1, column |-> 1]

keyword(s) == make_token("Keyword", s)
identifier(s) == make_token("Identifier", s)
number(s) == make_token("Number", s)
operator(s) == make_token("Operator", s)
eof == make_token("EOF", "")
newline == make_token("Newline", "\n")
lparen == make_token("LParen", "(")
rparen == make_token("RParen", ")")
lbracket == make_token("LBracket", "[")
rbracket == make_token("RBracket", "]")
lbrace == make_token("LBrace", "{")
rbrace == make_token("RBrace", "}")
colon == make_token("Colon", ":")

\* the operators the lexer produces as Operator tokens, and the two keywords
\* that are binary operators
OperatorTexts == {"=", "==", "!=", ">", "<", ">=", "<=", "+", "-", "*", "/", "%"}
BinaryTexts == (OperatorTexts \ {"="}) \cup {"ra", "wa"}
UnaryTexts == {"-", "hoina"}

\* the token the lexer makes of an operator's text
op_token(s) == IF s \in {"ra", "wa", "hoina"} THEN keyword(s) ELSE operator(s)

\* the expression of a bhan statement: a, b and c joined by two binary
\* operators, flat or with one pair in parentheses; a and b joined by one,
\* with a unary operator on one of them
Shapes == {"flat", "left parenthesized", "right parenthesized"}
Sides == {"left", "right"}
ExpressionInputs ==
    {<<"binary", a>> : a \in [o1 : BinaryTexts, o2 : BinaryTexts, shape : Shapes]}
    \cup {<<"unary", a>> : a \in [u : UnaryTexts, o1 : BinaryTexts, side : Sides]}

ExpressionTokens(input) ==
    CASE input[1] = "binary" /\ input[2].shape = "flat" ->
            <<identifier("a"), op_token(input[2].o1), identifier("b"),
              op_token(input[2].o2), identifier("c")>>
      [] input[1] = "binary" /\ input[2].shape = "left parenthesized" ->
            <<lparen, identifier("a"), op_token(input[2].o1), identifier("b"), rparen,
              op_token(input[2].o2), identifier("c")>>
      [] input[1] = "binary" /\ input[2].shape = "right parenthesized" ->
            <<identifier("a"), op_token(input[2].o1), lparen, identifier("b"),
              op_token(input[2].o2), identifier("c"), rparen>>
      [] input[1] = "unary" /\ input[2].side = "left" ->
            <<op_token(input[2].u), identifier("a"), op_token(input[2].o1),
              identifier("b")>>
      [] input[1] = "unary" /\ input[2].side = "right" ->
            <<identifier("a"), op_token(input[2].o1), op_token(input[2].u),
              identifier("b")>>

\* '(' 1 ')' directly after a bare identifier, a parenthesized expression,
\* an index access or a call, where an expression may stand
Callees == {"identifier", "parenthesized", "index access", "call"}
Contexts == {"statement", "print", "declaration", "list element", "argument", "block"}
CallInputs == {<<"call", a>> : a \in [callee : Callees, context : Contexts]}

Callee(callee) ==
    CASE callee = "identifier" -> <<identifier("f")>>
      [] callee = "parenthesized" -> <<lparen, identifier("f"), rparen>>
      [] callee = "index access" -> <<identifier("a"), lbracket, number("0"), rbracket>>
      [] callee = "call" -> <<identifier("f"), lparen, number("2"), rparen>>

InContext(context, tokens) ==
    CASE context = "statement" -> tokens
      [] context = "print" -> <<keyword("bhan")>> \o tokens
      [] context = "declaration" ->
            <<keyword("maanau"), identifier("x"), operator("=")>> \o tokens
      [] context = "list element" -> <<keyword("bhan"), lbracket>> \o tokens \o <<rbracket>>
      [] context = "argument" ->
            <<keyword("bhan"), identifier("g"), lparen>> \o tokens \o <<rparen>>
      [] context = "block" ->
            <<keyword("yedi"), keyword("sahi"), keyword("bhane"), lbrace, newline>>
            \o tokens \o <<newline, rbrace>>

CallTokens(input) ==
    InContext(input[2].context, Callee(input[2].callee) \o <<lparen, number("1"), rparen>>)

\* two complete statements with 0..MaxNewlines newline tokens between them,
\* in a program or in a block
StatementTexts == {"bhan 1", "bhan 2", "rok", "x = 1", "maanau y = 2", "f ( )"}
BlockPlaces == {"program", "if block", "while block", "for-each block", "function body"}
SeparationInputs ==
    {<<"statements", a>> : a \in [first : StatementTexts, second : StatementTexts,
                                  newlines : 0..MaxNewlines, place : BlockPlaces]}

StatementTokens(text) ==
    CASE text = "bhan 1" -> <<keyword("bhan"), number("1")>>
      [] text = "bhan 2" -> <<keyword("bhan"), number("2")>>
      [] text = "rok" -> <<keyword("rok")>>
      [] text = "x = 1" -> <<identifier("x"), operator("="), number("1")>>
      [] text = "maanau y = 2" ->
            <<keyword("maanau"), identifier("y"), operator("="), number("2")>>
      [] text = "f ( )" -> <<identifier("f"), lparen, rparen>>

InPlace(place, tokens) ==
    CASE place = "program" -> tokens
      [] place = "if block" ->
            <<keyword("yedi"), keyword("sahi"), keyword("bhane"), lbrace, newline>>
            \o tokens \o <<newline, rbrace>>
      [] place = "while block" ->
            <<keyword("jaba"), keyword("samma"), keyword("sahi"), lbrace, newline>>
            \o tokens \o <<newline, rbrace>>
      [] place = "for-each block" ->
            <<keyword("pratyek"), identifier("e"), keyword("ma"), identifier("l"),
              lbrace, newline>> \o tokens \o <<newline, rbrace>>
      [] place = "function body" ->
            <<keyword("kaam"), identifier("g"), lparen, identifier("q"), rparen,
              lbrace, newline>> \o tokens \o <<newline, rbrace>>

SeparationTokens(input) ==
    InPlace(input[2].place,
            StatementTokens(input[2].first)
            \o [i \in 1..input[2].newlines |-> newline]
            \o StatementTokens(input[2].second))

\* maanau x, or maanau x : t, then one Operator token, then 5
DeclarationInputs ==
    {<<"declaration", a>> : a \in [op : OperatorTexts, hint : BOOLEAN]}

DeclarationTokens(input) ==
    <<keyword("maanau"), identifier("x")>>
    \o (IF input[2].hint THEN <<colon, identifier("t")>> ELSE <<>>)
    \o <<operator(input[2].op), number("5")>>

ParseInputs == ExpressionInputs \cup CallInputs \cup SeparationInputs \cup DeclarationInputs

InputTokens(input) ==
    (CASE input[1] \in {"binary", "unary"} -> <<keyword("bhan")>> \o ExpressionTokens(input)
       [] input[1] = "call" -> CallTokens(input)
       [] input[1] = "statements" -> SeparationTokens(input)
       [] input[1] = "declaration" -> DeclarationTokens(input))
    \o <<eof>>

\* a Parser::new(tokens) about to parse
Parsing(input) ==
    [input |-> input, tokens |-> InputTokens(input), result |-> [done |-> FALSE]]

ParseInit ==
    /\ InterpreterNew
    /\ lexer = Tokenizing(<<>>)
    /\ \E input \in ParseInputs : parser = Parsing(input)
    /\ loop = NotLooping

\* what parse returned: the Program node or the error message
Parsed(r) ==
    IF r.ok THEN [done |-> TRUE, ok |-> TRUE, node |-> r.node]
    ELSE [done |-> TRUE, ok |-> FALSE, err |-> r.err]

\* `Parser::new(tokens).parse()`
Parse ==
    /\ ~parser.result.done
    /\ parser' = [parser EXCEPT !.result = Parsed(parse(ParserNew(parser.tokens)))]
    /\ UNCHANGED <<environment, functions, imported_modules, importing_stack, line, result,
                   output, trace, runs, succeeded, lines, call, outer, lexer, loop>>

ParseNext == Parse

ParseSpec == ParseInit /\ [][ParseNext]_vars

(***************************************************************************)
(* interpreter.rs ForEachLoop, one iteration per step, in programs whose   *)
(* loop body changes the variable the loop iterates over:                  *)
(*     maanau x = <list, string or dictionary>                             *)
(*     pratyek e ma x { bhan e / <nothing | x = <longer> | x[k] = 99 | rok> }  *)
(* loop holds what the Rust `for` holds between two iterations: the value  *)
(* the iterable evaluated to, moved into the iterator, and the position.   *)
(***************************************************************************)
SnapshotOvers ==
    {<<"list", n>> : n \in 0..MaxLen} \cup {<<"string", s>> : s \in Strings}
    \cup {<<"dictionary", n>> : n \in 0..2} \cup {<<"number">>}

SnapshotBodies == {"read", "reassign", "store", "rok"}

SnapshotPrograms ==
    {<<"snapshot", [over |-> over, body |-> body]>> :
        over \in SnapshotOvers, body \in SnapshotBodies}

\* a value of the type of the iterated one with more items than it
Longer(over) ==
    CASE over[1] = "list" -> ListLit(MaxLen + 1)
      [] over[1] = "string" -> String(<<"w", "x", "y", "z">>)
      [] over[1] = "dictionary" ->
            DictionaryLiteral(DictLit.pairs \o << <<(<<"c">>), NumLit(3)>> >>)
      [] OTHER -> NumLit(6)

\* the index the body stores at: the last element of the list, a key the
\* dictionary does not hold, the first character of the string
StoreIndex(over) ==
    CASE over[1] = "list" -> NumLit(over[2] - 1)
      [] over[1] = "dictionary" -> String(<<"z">>)
      [] OTHER -> NumLit(0)

SnapshotBody(a) ==
    <<Print_(Identifier("e"))>>
    \o (CASE a.body = "read" -> <<>>
          [] a.body = "reassign" -> <<Assignment("x", Longer(a.over))>>
          [] a.body = "store" ->
                <<IndexAssignment(Identifier("x"), StoreIndex(a.over), NumLit(99))>>
          [] a.body = "rok" -> <<Break>>)

SnapshotDeclaration(program) == VarDeclaration("x", IterableNode(program[2].over))

SnapshotLoop(program) == ForEachLoop("e", Identifier("x"), SnapshotBody(program[2]))

\* the interpreter between two steps of the loop
LoopInterpreter ==
    [environment |-> environment, functions |-> functions,
     imported_modules |-> imported_modules, importing_stack |-> importing_stack,
     output |-> output, trace |-> trace]

Stepped(st) ==
    /\ environment' = st.environment
    /\ functions' = st.functions
    /\ imported_modules' = st.imported_modules
    /\ importing_stack' = st.importing_stack
    /\ output' = st.output
    /\ trace' = st.trace

\* the head of the loop: the iterable is evaluated, once, and matched
for_each_enter(declaration, node, st) ==
    Try(interpret_with_control(declaration, st), LAMBDA d :
        Try(evaluate_expression(node.iterable, d.st), LAMBDA it :
            IF ~iteration_items(it.v).some THEN Err(it.st, iteration_items(it.v).err)
            ELSE [ok |-> TRUE, st |-> it.st, items |-> iteration_items(it.v).v]))

Entered(r) ==
    /\ Stepped(r.st)
    /\ loop' = IF r.ok THEN [items |-> r.items, i |-> 1, done |-> FALSE] ELSE NotLooping
    /\ result' = IF r.ok THEN result ELSE [ok |-> FALSE, err |-> r.err]

\* an iterator that reads the iterated variable again at every iteration
loop_items_reread(lp, st) == iteration_items(get(st.environment, "x").v).v

\* the items the iterator of the Rust `for` yields: those of the value that
\* was moved into it at the head of the loop
loop_items(lp, st) == lp.items

Iterated(r) ==
    /\ Stepped(IF r.ok THEN loop_iteration_end(r).st ELSE r.st)
    /\ loop' = IF r.ok THEN [loop EXCEPT !.i = @ + 1, !.done = loop_iteration_end(r).done]
               ELSE [loop EXCEPT !.done = TRUE]
    /\ result' = IF r.ok THEN result ELSE [ok |-> FALSE, err |-> r.err]

ForEachEnter(program) ==
    /\ lines = 0
    /\ Entered(for_each_enter(SnapshotDeclaration(program), SnapshotLoop(program), Interpreter))
    /\ line' = program
    /\ lines' = 1
    /\ UNCHANGED <<runs, succeeded, call, outer, lexer, parser>>

ForEachIteration ==
    /\ lines = 1
    /\ line[1] = "snapshot"
    /\ ~loop.done
    /\ loop.i <= Len(loop_items(loop, LoopInterpreter))
    /\ Iterated(for_each_iteration(SnapshotLoop(line).variable,
                                   loop_items(loop, LoopInterpreter)[loop.i],
                                   SnapshotLoop(line).body, LoopInterpreter))
    /\ UNCHANGED <<line, lines, runs, succeeded, call, outer, lexer, parser>>

ForEachExit ==
    /\ lines = 1
    /\ line[1] = "snapshot"
    /\ ~loop.done
    /\ loop.i > Len(loop_items(loop, LoopInterpreter))
    /\ loop' = [loop EXCEPT !.done = TRUE]
    /\ UNCHANGED <<environment, functions, imported_modules, importing_stack, line, result,
                   output, trace, runs, succeeded, lines, call, outer, lexer, parser>>

ForEachNext ==
    \/ \E program \in SnapshotPrograms : ForEachEnter(program)
    \/ ForEachIteration
    \/ ForEachExit

\* the interpreter is one thread of sequential code: a loop that has another
\* iteration to run, or has run out of items, goes on
ForEachSpec == Init /\ [][ForEachNext]_vars /\ WF_vars(ForEachIteration \/ ForEachExit)

(***************************************************************************)
(* environment.rs driven directly, as its unit tests drive it: any         *)
(* sequence of push_scope, pop_scope, define, get and set.  outer is kept  *)
(* beside the scopes: for each scope and each name defined in it, the      *)
(* binding of that name that was visible just before its first define in   *)
(* that scope.                                                             *)
(***************************************************************************)
Names == {"x", "y"}
Values == {VNumber(1), VNumber(2)}

\* the value of the innermost scope that binds name
Visible(scopes, name) ==
    LET holders == {i \in 1..Len(scopes) : name \in DOMAIN scopes[i]} IN
    IF holders = {} THEN None
    ELSE Some(scopes[CHOOSE i \in holders : \A j \in holders : j <= i][name])

EnvPushScope ==
    /\ Len(environment) < MaxScopes
    /\ environment' = push_scope(environment)
    /\ outer' = Append(outer, EmptyMap)
    /\ call' = [op |-> "push_scope"]
    /\ UNCHANGED interpVars

EnvPopScope ==
    /\ environment' = pop_scope(environment)
    /\ outer' = IF Len(outer) > 1 THEN SubSeq(outer, 1, Len(outer) - 1) ELSE outer
    /\ call' = [op |-> "pop_scope",
                 popped |-> IF Len(environment) > 1 THEN environment[Len(environment)]
                            ELSE EmptyMap,
                 restored |-> IF Len(outer) > 1 THEN outer[Len(outer)] ELSE EmptyMap]
    /\ UNCHANGED interpVars

EnvDefine(name, value) ==
    /\ environment' = define(environment, name, value)
    /\ outer' = [outer EXCEPT ![Len(outer)] =
                    IF name \in DOMAIN @ THEN @
                    ELSE Insert(@, name, Visible(environment, name))]
    /\ call' = [op |-> "define", name |-> name, value |-> value]
    /\ UNCHANGED interpVars

EnvGet(name) ==
    /\ call' = [op |-> "get", name |-> name, ret |-> get(environment, name)]
    /\ UNCHANGED <<environment, outer>>
    /\ UNCHANGED interpVars

EnvSet(name, value) ==
    /\ LET r == set(environment, name, value) IN
        /\ environment' = r.scopes
        /\ call' = [op |-> "set", name |-> name, value |-> value, ok |-> r.ok,
                     err |-> IF r.ok THEN <<>> ELSE r.err]
    /\ UNCHANGED outer
    /\ UNCHANGED interpVars

EnvNext ==
    \/ EnvPushScope
    \/ EnvPopScope
    \/ \E name \in Names, value \in Values : EnvDefine(name, value)
    \/ \E name \in Names : EnvGet(name)
    \/ \E name \in Names, value \in Values : EnvSet(name, value)

EnvSpec == Init /\ [][EnvNext]_vars


(***************************************************************************)
(* Properties                                                              *)
(***************************************************************************)
InterpretStep == lines' = lines + 1

\* C1: when interpret returns Ok the environment holds as many scopes as
\* before the call: every scope pushed for an if/else block, a loop iteration
\* or a function call was popped, also on Return, Break and Continue.
C1_ScopesBalancedOnOk ==
    [][(InterpretStep /\ result'.ok) => Len(environment') = Len(environment)]_vars

\* a call that leaves a function through a Return inside an if inside a
\* while loop, made on an interpreter that already holds a second scope
C1_Witness ==
    /\ line = <<"g(2)">>
    /\ result = [ok |-> TRUE, v |-> VNumber(2)]
    /\ Len(environment) > 1

\* C2: when interpret returns Err the environment holds exactly the scopes it
\* held before the call, so the next line starts with the global scope only.
C2_ScopesRestoredOnErr ==
    [][(InterpretStep /\ ~result'.ok) => Len(environment') = Len(environment)]_vars

\* C3: a filename is recorded as imported only when the file's program was
\* executed and the execution succeeded.
C3_ImportedOnlyOnSuccess == \A f \in DOMAIN imported_modules : f \in succeeded

\* C4: whenever execute_import returns, with Ok or with any Err, the
\* importing_stack is what it was before the call.
C4_StackRestored ==
    [][(InterpretStep /\ line'[1] = "aayaat") => importing_stack' = importing_stack]_vars

\* C5: each file's program is interpreted at most once per interpreter, and
\* once an import of a file has succeeded a later import of it is a no-op:
\* it runs nothing, prints nothing and leaves the environment and the
\* function table as they were.
C5_ImportedOnce ==
    /\ [](\A f \in FileNames : runs[f] <= 1)
    /\ [][\A f \in succeeded :
            (InterpretStep /\ line' = ImportLine(f)) =>
                /\ result' = [ok |-> TRUE, v |-> VNull]
                /\ trace' = << <<"import", f>>, <<"skip", f>> >>
                /\ output' = <<>>
                /\ environment' = environment
                /\ functions' = functions]_vars

\* the second import of a file whose first import succeeded on an earlier line
C5_Witness ==
    /\ line = ImportLine("lib")
    /\ "lib" \in succeeded
    /\ lines = 2
    /\ trace = << <<"import", "lib">>, <<"skip", "lib">> >>
    /\ "inc" \in DOMAIN functions

\* the import events of one interpret call, read in order with the set of
\* files whose program is being interpreted: an import of a file that is
\* being interpreted is answered by the circular-import error, and no
\* program starts while it is already being interpreted
RECURSIVE CycleSafe(_, _, _)
CycleSafe(events, i, active) ==
    IF i > Len(events) THEN TRUE
    ELSE LET e == events[i] IN
         CASE e[1] = "import" ->
                /\ e[2] \in active =>
                      (i < Len(events) /\ events[i + 1] = <<"circular", e[2]>>)
                /\ CycleSafe(events, i + 1, active)
           [] e[1] = "begin" ->
                /\ e[2] \notin active
                /\ CycleSafe(events, i + 1, active \cup {e[2]})
           [] e[1] = "end" -> CycleSafe(events, i + 1, active \ {e[2]})
           [] OTHER -> CycleSafe(events, i + 1, active)

\* C6: a file that imports itself while it is being imported, directly or
\* through other imports, gets the circular-import error from the inner
\* import, and none of its statements runs a second time.
C6_CircularImportFails ==
    /\ CycleSafe(trace, 1, {})
    /\ Count(output, Chars_cyc) <= 1
    /\ (Contains(trace, <<"circular", "cyc">>) \/ Contains(trace, <<"circular", "p">>))
          => (~result.ok /\ Contains(result.err, "Circular import bhettayo bro: "))

\* p imports q and q imports p back
C6_Witness ==
    /\ line = <<"chain">>
    /\ Contains(trace, <<"begin", "q">>)
    /\ Contains(trace, <<"circular", "p">>)
    /\ runs["p"] = 1

\* C7: interpret on an expression node, or on a Program whose last statement
\* is an expression, returns Ok with the value of the expression.
C7_ExpressionValue ==
    /\ line = <<"5 + 3">> => result = [ok |-> TRUE, v |-> VNumber(8)]
    /\ line = <<"x = 42; x">> => result = [ok |-> TRUE, v |-> VNumber(42)]

\* the lines that execute a Break where no loop encloses it
BreakOutsideLoop ==
    \/ line \in {<<"rok">>, <<"Break">>, <<"if rok">>, <<"loop calls rok">>}
    \/ Contains(trace, <<"begin", "brk">>)

ContinueOutsideLoop ==
    \/ line = <<"jane">>
    \/ Contains(trace, <<"begin", "cnt">>)

\* C8: a Break or Continue executed where no loop encloses it makes interpret
\* fail with the "outside loop" error: at top level, in an if block, in a
\* function body called from a loop, and at the top level of an imported file.
C8_OutsideLoopFails ==
    /\ BreakOutsideLoop =>
          (~result.ok /\ Contains(result.err, "Break statement outside loop"))
    /\ ContinueOutsideLoop =>
          (~result.ok /\ Contains(result.err, "Continue statement outside loop"))

\* C9: after any sequence of Environment calls there is at least one scope,
\* and pop_scope with only the global scope left changes nothing.
C9_GlobalScopeStays ==
    /\ [](Len(environment) >= 1)
    /\ [][(call'.op = "pop_scope" /\ Len(environment) = 1) => environment' = environment]_vars

\* pop_scope was called on a global scope that holds bindings
C9_Witness ==
    /\ call.op = "pop_scope"
    /\ Len(environment) = 1
    /\ DOMAIN environment[1] = Names

\* C10: right after define(name, value) get(name) returns value, and after
\* the scope is popped get returns for every name defined in it what was
\* visible before the define: the unchanged outer value, or nothing.
C10_ScopedBindings ==
    /\ call.op = "define" => get(environment, call.name) = Some(call.value)
    /\ call.op = "pop_scope" =>
          \A name \in DOMAIN call.restored : get(environment, name) = call.restored[name]

\* a scope was popped that shadowed x = 1 with x = 2 and held a y that no
\* outer scope binds
C10_Witness ==
    /\ call.op = "pop_scope"
    /\ DOMAIN call.popped = {"x", "y"}
    /\ call.popped["x"] = VNumber(2)
    /\ call.restored["x"] = Some(VNumber(1))
    /\ call.restored["y"] = None
    /\ get(environment, "x") = Some(VNumber(1))
    /\ get(environment, "y") = None

\* the scopes that bind name, by position (1 is the global scope)
Holders(scopes, name) == {i \in 1..Len(scopes) : name \in DOMAIN scopes[i]}

Innermost(holders) == CHOOSE i \in holders : \A j \in holders : j <= i

\* C11: set(name, value) overwrites name in the innermost scope that binds it
\* and changes nothing else; when no scope binds name it fails with
\* "Undefined variable" and changes nothing.  A set that reached an outer
\* scope is still visible when the inner scope is popped next.
C11_SetOverwritesNearest ==
    /\ [][call'.op = "set" =>
            IF Holders(environment, call'.name) = {}
            THEN /\ ~call'.ok
                 /\ Contains(call'.err, "Undefined variable: ")
                 /\ environment' = environment
            ELSE /\ call'.ok
                 /\ Len(environment') = Len(environment)
                 /\ \A i \in 1..Len(environment) :
                       /\ DOMAIN environment'[i] = DOMAIN environment[i]
                       /\ \A n \in DOMAIN environment[i] :
                             environment'[i][n] =
                                IF /\ i = Innermost(Holders(environment, call'.name))
                                   /\ n = call'.name
                                THEN call'.value
                                ELSE environment[i][n]]_vars
    /\ [][(/\ call.op = "set"
            /\ call.ok
            /\ Len(environment) > 1
            /\ call.name \notin DOMAIN environment[Len(environment)]
            /\ call'.op = "pop_scope")
              => get(environment', call.name) = Some(call.value)]_vars

\* x is bound to 1 in the global scope only, and set("x", 2) was called with
\* two more scopes pushed, the middle one binding y
C11_Witness ==
    /\ call = [op |-> "set", name |-> "x", value |-> VNumber(2), ok |-> TRUE, err |-> <<>>]
    /\ Len(environment) = 3
    /\ Holders(environment, "x") = {1}
    /\ environment[1]["x"] = VNumber(2)
    /\ Holders(environment, "y") = {2}

\* C12: on a list of n elements, reading x[i] and executing x[i] = v succeed
\* exactly when i lies in 0..n-1; every other index, every negative one
\* included, fails with "out of bounds" and leaves the stored list as it was.
C12_IndexInBounds ==
    /\ line[1] = "list read" =>
          IF line[2].i \in 0..(line[2].n - 1)
          THEN result = [ok |-> TRUE, v |-> VNumber(Elem(line[2].i + 1))]
          ELSE ~result.ok /\ Contains(result.err, " out of bounds")
    /\ line[1] = "list write" =>
          IF line[2].i \in 0..(line[2].n - 1)
          THEN result = [ok |-> TRUE,
                         v |-> VList([Elems(line[2].n) EXCEPT ![line[2].i + 1] = VNumber(7)])]
          ELSE /\ ~result.ok
               /\ Contains(result.err, " out of bounds")
               /\ environment[1]["x"] = VList(Elems(line[2].n))

\* the lists that differ from Elems(n) in exactly the element at position k
OneReplaced(n, k, value) == VList([Elems(n) EXCEPT ![k] = value])

\* C13: after x[i] = 7 (d[key] = 7) has succeeded, reading x[i] (d[key])
\* yields 7, every other element of the container is as before, and no other
\* variable has changed: not y that was initialised from x, not z that was
\* initialised from an equal literal, not an outer x that the assigned x
\* shadows.
C13_IndexAssignValueSemantics ==
    /\ (line[1] = "list alias" /\ result.ok) =>
          /\ result.v = VNumber(7)
          /\ \E k \in 1..line[2].n :
                /\ environment[1]["x"] = OneReplaced(line[2].n, k, VNumber(7))
                /\ line[2].i >= 0 => k = line[2].i + 1
          /\ environment[1]["y"] = VList(Elems(line[2].n))
          /\ environment[1]["z"] = VList(Elems(line[2].n))
          /\ DOMAIN environment[1] = {"x", "y", "z"}
    /\ (line[1] = "list shadow" /\ result.ok) =>
          /\ output = <<to_string(VNumber(7))>>
          /\ result.v = VList(Elems(line[2].n))
          /\ environment = << [x \in {"x"} |-> VList(Elems(line[2].n))] >>
    /\ (line[1] = "dict alias" /\ result.ok) =>
          /\ result.v = VNumber(7)
          /\ environment[1]["d"] = VDictionary(Insert(DictVal, line[2].key, VNumber(7)))
          /\ environment[1]["e"] = VDictionary(DictVal)
          /\ DOMAIN environment[1] = {"d", "e"}

\* the middle element of a list of three was assigned while y held a copy
C13_Witness ==
    /\ line = <<"list alias", [n |-> 3, i |-> 1]>>
    /\ result = [ok |-> TRUE, v |-> VNumber(7)]
    /\ environment[1]["x"] = VList(<<VNumber(10), VNumber(7), VNumber(30)>>)
    /\ environment[1]["y"] = VList(<<VNumber(10), VNumber(20), VNumber(30)>>)

\* C14: whatever Number the left operand is, / and % with a right operand
\* that is the Number 0 fail with "Division by zero" and "Modulo by zero"
\* and produce no value.
C14_ZeroDivisorFails ==
    line[1] = "by zero" =>
        /\ ~result.ok
        /\ line[2].op = "/" => Contains(result.err, "Division by zero")
        /\ line[2].op = "%" => Contains(result.err, "Modulo by zero")

\* a negative number modulo a zero written as -0
C14_Witness ==
    /\ line = <<"by zero", [l |-> -3, op |-> "%", r |-> "-0"]>>
    /\ ~result.ok
    /\ environment = EnvironmentNew

\* C15: a call finds its callee exactly when a declaration of the name was
\* executed before the call: a call above the declaration fails with
\* "Undefined function", as does a call of a function whose declaration
\* stands in a body that never ran; after a second declaration of the name
\* the calls use the new parameters and the new body.
C15_DeclarationOrder ==
    line[1] = "declare" =>
        CASE line[2].order = "call first" ->
                /\ ~result.ok
                /\ Contains(result.err, "Undefined function: ")
                /\ functions = EmptyMap
          [] line[2].order = "declare first" ->
                result = [ok |-> TRUE, v |-> VNumber(line[2].k + 1)]
          [] line[2].order = "declare twice" ->
                /\ output = <<to_string(VNumber(line[2].k + 1))>>
                /\ result = [ok |-> TRUE, v |-> VNumber(line[2].k * 3)]
                /\ functions["h"].params = <<"a", "b">>
          [] line[2].order = "declare twice, old call" ->
                /\ ~result.ok
                /\ Contains(result.err, " expects ")
          [] line[2].order = "declared in uncalled body" ->
                /\ ~result.ok
                /\ Contains(result.err, "Undefined function: ")
                /\ DOMAIN functions = {"mk"}
          [] line[2].order = "declared in called body" ->
                result = [ok |-> TRUE, v |-> VNumber(line[2].k + 1)]

\* h(2) printed 3 under the first declaration and h(2, 3) returned 6 under
\* the second
C15_Witness ==
    /\ line = <<"declare", [order |-> "declare twice", k |-> 2]>>
    /\ output = <<to_string(VNumber(3))>>
    /\ result = [ok |-> TRUE, v |-> VNumber(6)]

\* C16: a call with a number of arguments other than the number of
\* parameters fails with an error that names both numbers; no argument was
\* evaluated (side never ran: n is 0 and nothing was printed), no scope was
\* pushed, no statement of the body ran, and the function table is as the
\* declarations left it.
C16_ArgumentCount ==
    (line[1] = "count" /\ line[2].params # line[2].args) =>
        /\ result = [ok |-> FALSE,
                     err |-> <<"Function ", "h", " expects ", ToString(line[2].params),
                               " arguments, got ", ToString(line[2].args)>>]
        /\ output = <<>>
        /\ environment = << [x \in {"n"} |-> VNumber(0)] >>
        /\ DOMAIN functions = {"h", "side"}
        /\ Len(functions["h"].params) = line[2].params

\* a call with one argument of a function with two parameters
C16_Witness ==
    /\ line = <<"count", [params |-> 2, args |-> 1]>>
    /\ ~result.ok
    /\ environment[1]["n"] = VNumber(0)

\* C17: the variable v that the file lib declares at its top level is bound
\* in the global scope of the importer wherever the import statement is
\* executed, so v is still readable after the if block, the loop body or the
\* function call that executed the import.
C17_ImportBindsGlobal ==
    line[1] = "import at" =>
        /\ result = [ok |-> TRUE, v |-> VNumber(1)]
        /\ "v" \in DOMAIN environment[1]

\* C18: the body of callee sees the scopes of its caller: it reads the
\* caller's local loc (prints 10) and assigns it, and the caller finds
\* loc = 10 + k after the call; the parameter p shadows the caller's p during
\* the call (prints k) and an assignment to it inside the body leaves the
\* caller's p = 5 as it was.
C18_CallerScopeVisible ==
    line[1] = "caller scope" =>
        /\ output = <<to_string(VNumber(10)), to_string(VNumber(line[2].k))>>
        /\ result = [ok |-> TRUE, v |-> VList(<<VNumber(10 + line[2].k), VNumber(5)>>)]
        /\ environment = EnvironmentNew

\* callee(3) was called from the body of the function caller
C18_Witness ==
    /\ line = <<"caller scope", [caller |-> "function body", k |-> 3]>>
    /\ result = [ok |-> TRUE, v |-> VList(<<VNumber(13), VNumber(5)>>)]
    /\ DOMAIN functions = {"callee", "caller"}

\* the position of the second '.' of a text that begins with a digit and
\* holds nothing but digits and one '.' before it; 0 for every other text
SecondDot(code) ==
    LET dots == {j \in 1..Len(code) :
                    /\ code[j] = "."
                    /\ code[1] \in Digits
                    /\ Cardinality({i \in 1..(j - 1) : code[i] = "."}) = 1
                    /\ \A i \in 1..(j - 1) : code[i] \in Digits \cup {"."}}
    IN  IF dots = {} THEN 0 ELSE CHOOSE j \in dots : TRUE

\* C19: tokenize succeeds on a digit sequence with a second '.', such as
\* 1.2.3: the first token is the Number up to the second '.' (1.2) and the
\* second '.' starts a further token.
C19_SecondDotStartsToken ==
    (lexer.result.done /\ SecondDot(lexer.lx.code) > 0) =>
        /\ lexer.result.ok
        /\ lexer.tokens[1].token_type = "Number"
        /\ lexer.tokens[1].value = SubSeq(lexer.lx.code, 1, SecondDot(lexer.lx.code) - 1)
        /\ Len(lexer.tokens) > 2
        /\ lexer.tokens[2].column = SecondDot(lexer.lx.code)

\* token a was pushed for a position of the source text before that of b
Before(a, b) == a.line < b.line \/ (a.line = b.line /\ a.column < b.column)

\* a token sequence in source order whose last token, and only it, is EOF
EndsWithEOF(tokens) ==
    /\ Len(tokens) > 0
    /\ \A i \in 1..Len(tokens) : (tokens[i].token_type = "EOF") <=> (i = Len(tokens))
    /\ \A i \in 1..(Len(tokens) - 1) : Before(tokens[i], tokens[i + 1])

\* C20: for every finite source text tokenize terminates: every step of its
\* loop consumes at least one character or fails, tokenize eventually returns,
\* and what it returns is either an error or a token sequence in source order
\* whose last token, and only its last token, is EOF.
C20_TokenizeTerminates ==
    /\ [][TokenizeStep => \/ lexer'.lx.pos > lexer.lx.pos
                          \/ lexer'.result.done /\ ~lexer'.result.ok]_vars
    /\ <>(lexer.result.done)
    /\ [](lexer.result.done => (~lexer.result.ok \/ EndsWithEOF(lexer.tokens)))

\* tokenize returned the five tokens of `maanau x = 5`: four and EOF
C20_Witness ==
    /\ lexer.lx.code = <<"m", "a", "a", "n", "a", "u", " ", "x", " ", "=", " ", "5">>
    /\ lexer.result = [done |-> TRUE, ok |-> TRUE]
    /\ Len(lexer.tokens) = 5
    /\ lexer.tokens[1].token_type = "Keyword"
    /\ lexer.tokens[5] = [token_type |-> "EOF", value |-> <<>>, line |-> 1, column |-> 13]

\* the precedence level of a binary operator, 1 the loosest
Level(op) ==
    CASE op = "wa" -> 1
      [] op = "ra" -> 2
      [] op \in {"==", "!=", ">", "<", ">=", "<="} -> 3
      [] op \in {"+", "-"} -> 4
      [] op \in {"*", "/", "%"} -> 5

\* the tree the precedence levels and left associativity give an expression
Grouped(input) ==
    CASE input[1] = "binary" /\ input[2].shape = "flat" ->
            IF Level(input[2].o2) > Level(input[2].o1)
            THEN BinaryOp(Identifier("a"), input[2].o1,
                          BinaryOp(Identifier("b"), input[2].o2, Identifier("c")))
            ELSE BinaryOp(BinaryOp(Identifier("a"), input[2].o1, Identifier("b")),
                          input[2].o2, Identifier("c"))
      [] input[1] = "binary" /\ input[2].shape = "left parenthesized" ->
            BinaryOp(BinaryOp(Identifier("a"), input[2].o1, Identifier("b")),
                     input[2].o2, Identifier("c"))
      [] input[1] = "binary" /\ input[2].shape = "right parenthesized" ->
            BinaryOp(Identifier("a"), input[2].o1,
                     BinaryOp(Identifier("b"), input[2].o2, Identifier("c")))
      [] input[1] = "unary" /\ input[2].side = "left" ->
            BinaryOp(UnaryOp(input[2].u, Identifier("a")), input[2].o1, Identifier("b"))
      [] input[1] = "unary" /\ input[2].side = "right" ->
            BinaryOp(Identifier("a"), input[2].o1, UnaryOp(input[2].u, Identifier("b")))

\* C21: parse_expression builds binary operations by precedence, from
\* tightest to loosest unary (-, hoina), * / %, + -, comparison, ra, wa;
\* operators of one level associate to the left, and a parenthesized
\* sub-expression is a single operand.
C21_PrecedenceAndAssociativity ==
    (parser.input[1] \in {"binary", "unary"} /\ parser.result.done) =>
        parser.result = [done |-> TRUE, ok |-> TRUE,
                         node |-> Program(<<Print_(Grouped(parser.input))>>)]

\* bhan a + b * c was parsed as a + (b * c), or bhan a - b - c as (a - b) - c
C21_Witness ==
    \/ /\ parser.input = <<"binary", [o1 |-> "+", o2 |-> "*", shape |-> "flat"]>>
       /\ parser.result.done /\ parser.result.ok
       /\ parser.result.node.statements[1].expr.operator = "+"
       /\ parser.result.node.statements[1].expr.right =
              BinaryOp(Identifier("b"), "*", Identifier("c"))
    \/ /\ parser.input = <<"binary", [o1 |-> "-", o2 |-> "-", shape |-> "flat"]>>
       /\ parser.result.done /\ parser.result.ok
       /\ parser.result.node.statements[1].expr.left =
              BinaryOp(Identifier("a"), "-", Identifier("b"))

\* C22: a call suffix '(' arguments ')' is accepted only directly after a
\* bare identifier: when '(' directly follows a parenthesized expression, an
\* index access or the result of another call, parse fails with a parser
\* error and no AST is produced.
C22_CallOnlyOnIdentifier ==
    (parser.input[1] = "call" /\ parser.result.done) =>
        (parser.result.ok <=> parser.input[2].callee = "identifier")

\* C23: consecutive statements of a program or a block must be separated by
\* at least one newline token: a second statement that starts directly after
\* a complete first one is rejected with a parser error.
C23_NewlineSeparatesStatements ==
    (parser.input[1] = "statements" /\ parser.result.done /\ parser.input[2].newlines = 0) =>
        ~parser.result.ok

\* C27: parse_var_declaration accepts only the operator '=' between the
\* declared name (with its optional type hint) and the initializer: with any
\* other operator there, parse fails with a parser error.
C27_DeclarationNeedsEquals ==
    (parser.input[1] = "declaration" /\ parser.result.done) =>
        (parser.result.ok <=> parser.input[2].op = "=")

\* C28: in every reachable interpreter state no filename is both recorded in
\* imported_modules and present on importing_stack (an import that finishes
\* removes its own filename from the stack, also when an import nested in it
\* failed).
C28_ImportedNotInProgress ==
    \A f \in FileNames : ~(f \in DOMAIN imported_modules /\ Contains(importing_stack, f))

\* C29: indexing a String with a Number gives the one-character string at
\* that character position when the index is below the number of characters
\* of the string, and the error 'String index <i> out of bounds' otherwise;
\* no other outcome (such as a panic of the interpreter) exists.
C29_StringIndexByCharacter ==
    line[1] = "string read" =>
        LET s == line[2].s
            i == line[2].i
        IN  IF i < Len(s)
            THEN result = [ok |-> TRUE, v |-> VString(<<s[i + 1]>>)]
            ELSE /\ ~result.ok
                 /\ result.err = <<"String index ", ToString(i), " out of bounds">>

\* the sequences of a sequence of sequences, one after the other
RECURSIVE Flatten(_)
Flatten(seqs) == IF seqs = <<>> THEN <<>> ELSE Head(seqs) \o Flatten(Tail(seqs))

\* the while program leaves its loop early when the body reaches rok or
\* pathau at i = b, which it does when b <= n
LeavesEarly(a) == a.exit # "jane" /\ a.b <= a.n

\* the number of times the body of the while program is entered
Iterations(a) == IF LeavesEarly(a) THEN a.b ELSE a.n

\* what the while program prints: a "c" for each evaluation of the condition
\* and the value of i for each iteration that reaches the end of its body
WhileOutput(a) ==
    Flatten([k \in 1..Iterations(a) |->
                <<to_string(VString(<<"c">>))>>
                \o (IF k = a.b THEN <<>> ELSE <<to_string(VNumber(k))>>)])
    \o (IF LeavesEarly(a) THEN <<>> ELSE <<to_string(VString(<<"c">>))>>)

\* C24: a while loop evaluates its condition before every iteration; rok
\* ends the loop without another evaluation of the condition, jane skips the
\* rest of the body and the condition is evaluated again, pathau leaves the
\* loop at once with its value, and a condition that is falsy at first runs
\* the body zero times and execution goes on after the loop.
C24_WhileLoop ==
    line[1] = "while" =>
        LET a == line[2] IN
        /\ output = WhileOutput(a)
        /\ result = [ok |-> TRUE,
                     v |-> VNumber(IF LeavesEarly(a)
                                   THEN (IF a.exit = "rok" THEN 100 + a.b ELSE a.b)
                                   ELSE 100 + a.n)]
        /\ environment = <<[i \in {"i"} |-> VNumber(Iterations(a))]>>

\* three iterations with jane in the second: the condition was evaluated four
\* times and the second iteration printed nothing
C24_Witness ==
    /\ line = <<"while", [n |-> 3, b |-> 2, exit |-> "jane"]>>
    /\ output = <<to_string(VString(<<"c">>)), to_string(VNumber(1)),
                  to_string(VString(<<"c">>)),
                  to_string(VString(<<"c">>)), to_string(VNumber(3)),
                  to_string(VString(<<"c">>))>>
    /\ result = [ok |-> TRUE, v |-> VNumber(103)]

\* the values a for-each loop is expected to hand to its body, as printed:
\* the elements of the list literal, or the characters of the string
ForEachPrinted(over) ==
    CASE over[1] = "list" -> [k \in 1..over[2] |-> to_string(VNumber(Elem(k)))]
      [] over[1] = "string" -> [k \in 1..Len(over[2]) |-> to_string(VString(<<over[2][k]>>))]
      [] OTHER -> <<>>

\* the keys of the dictionary literal of n pairs, as printed
KeysPrinted(n) == {to_string(VString(DictLit.pairs[k][1])) : k \in 1..n}

\* C25: a for-each loop runs its body once per element of a List in order,
\* once per character of a String in order and once per key of a Dictionary
\* (each key bound as a String, exactly once); over any other value it fails
\* with 'Cannot iterate over <type>' and the body does not run.  The loop
\* variable lives in the scope of its iteration: the outer variable of the
\* same name has its previous value after the loop, also when the body
\* assigned to the loop variable.
C25_ForEach ==
    line[1] = "for each" =>
        LET over == line[2].over IN
        CASE over[1] \in {"list", "string"} ->
                /\ output = ForEachPrinted(over)
                /\ result = [ok |-> TRUE, v |-> VNumber(77)]
          [] over[1] = "dictionary" ->
                /\ Len(output) = over[2]
                /\ {output[k] : k \in 1..Len(output)} = KeysPrinted(over[2])
                /\ result = [ok |-> TRUE, v |-> VNumber(77)]
          [] OTHER ->
                /\ output = <<>>
                /\ ~result.ok
                /\ result.err = <<"Cannot iterate over ",
                                  CASE over[1] = "number" -> "Number"
                                    [] over[1] = "boolean" -> "Boolean"
                                    [] over[1] = "null" -> "Null">>

\* the body printed both keys of {"a": 1, "b": 2} and assigned to the loop
\* variable; the outer e is 77 after the loop
C25_Witness ==
    /\ line = <<"for each", [over |-> <<"dictionary", 2>>, assign |-> TRUE]>>
    /\ Len(output) = 2
    /\ result = [ok |-> TRUE, v |-> VNumber(77)]
    /\ environment[1]["e"] = VNumber(77)

\* the operands of the logical programs that are falsy: 0, the empty string,
\* galat, the empty list, the empty dictionary and null
FalsyOperands == {"0", "empty string", "galat", "empty list", "empty dictionary", "null"}

Truthy(operand) == operand \notin FalsyOperands

\* C26: ra and wa take operands of every type and give the Boolean 'and' and
\* 'or' of their truthiness; the right operand is evaluated always, also when
\* the left operand decides the result: its side effect (the print of side())
\* happens and its runtime error is the result of the expression.
C26_LogicalOperatorsEvaluateBothSides ==
    line[1] = "logical" =>
        LET a == line[2] IN
        /\ output = <<to_string(VString(<<"s", "i", "d", "e">>))>>
        /\ IF a.r = "undefined"
           THEN /\ ~result.ok
                /\ result.err = <<"Undefined variable: ", "nowhere">>
           ELSE result = [ok |-> TRUE,
                          v |-> VBoolean(IF a.op = "ra"
                                         THEN Truthy(a.l) /\ Truthy(a.r)
                                         ELSE Truthy(a.l) \/ Truthy(a.r))]

\* the left operand of wa is truthy and the right operand, a call that
\* prints and returns an empty list, was evaluated all the same
C26_Witness ==
    /\ line = <<"logical", [l |-> "dictionary", op |-> "wa", r |-> "empty list"]>>
    /\ output = <<to_string(VString(<<"s", "i", "d", "e">>))>>
    /\ result = [ok |-> TRUE, v |-> VBoolean(TRUE)]

\* the number of items of the value the snapshot program iterates over
Size(over) ==
    CASE over[1] \in {"list", "dictionary"} -> over[2]
      [] over[1] = "string" -> Len(over[2])
      [] OTHER -> 0

\* the iterations so far, each of which began with a print of the loop
\* variable, are at most as many as the iterated value had items when the
\* loop began, and their items are those of that value: the elements or
\* characters in order, or distinct keys of the dictionary; a loop that
\* ended without rok or an error made exactly that many iterations
SnapshotIterated ==
    line[1] = "snapshot" =>
        LET over == line[2].over IN
        /\ Len(output) <= Size(over)
        /\ loop.i <= Size(over) + 1
        /\ IF over[1] = "dictionary"
           THEN /\ \A k \in 1..Len(output) : output[k] \in KeysPrinted(over[2])
                /\ \A j, k \in 1..Len(output) : output[j] = output[k] => j = k
           ELSE \A k \in 1..Len(output) : output[k] = ForEachPrinted(over)[k]
        /\ (loop.done /\ result.ok /\ line[2].body # "rok") => Len(output) = Size(over)

\* C30: a for-each loop iterates over the value its iterable had when the
\* loop began: a body that reassigns the iterated variable or stores into it
\* by index changes neither the number nor the values of the iterations that
\* remain, so a loop over n items makes at most n iterations and ends.
C30_ForEachOverSnapshot ==
    /\ []SnapshotIterated
    /\ (lines = 1 /\ line[1] = "snapshot") ~> loop.done

\* the loop over [10, 20] ended after two iterations whose bodies made x a
\* list of MaxLen + 1 elements
C30_Witness ==
    /\ line = <<"snapshot", [over |-> <<"list", 2>>, body |-> "reassign"]>>
    /\ loop.done
    /\ output = <<to_string(VNumber(10)), to_string(VNumber(20))>>
    /\ Len(environment[1]["x"].l) = MaxLen + 1

====
